---- MODULE Spec2Model ----
(***************************************************************************)
(* Handle tables of the gawk ODBC extension (gawk-5.1.0/extension/odbc.c): *)
(* the connection table, the cursor table, their free counters, and the    *)
(* facade functions that acquire and release slots.                        *)
(*                                                                         *)
(* The ODBC driver manager is an external service.  The return code of     *)
(* every call made to it is an input of the calling handler, drawn from    *)
(* the return codes the call is documented to produce; a call on a handle  *)
(* the driver manager does not hold can only give SQL_INVALID_HANDLE.  A   *)
(* native handle is named after the slot it is stored in (slot i holds     *)
(* NULL or i + 1): the code never compares two handles, it only tests a    *)
(* slot against NULL.                                                      *)
(*                                                                         *)
(* A statement's result set is held by the driver manager: its column      *)
(* count, its row count and its contents are inputs of ODBC_execute.  A    *)
(* cell is a length indicator with the bytes the driver writes; a string   *)
(* is the sequence of its byte values.  Where the code reads memory it     *)
(* never wrote, or writes past a buffer, the handler either goes on as     *)
(* written or leaves the process in an undefined state (aborted).          *)
(***************************************************************************)
EXTENDS Integers, FiniteSets, Sequences, TLC

\* ---------------------------------------------------------------- sizing
\* capacity of the connection table (100 in the source, reduced here)
MAX_ODBC_CONNECTIONS == 2
\* capacity of the cursor table (100 in the source, reduced here)
MAX_ODBC_CURSORS == 2
\* the free counters are unsigned and only ever incremented by one; the
\* model stops incrementing a counter MaxSurplus above its table's capacity
MaxSurplus == 1
\* the driver manager refuses to release at most MaxLeaked connection handles
MaxLeaked == 1
\* a statement has at most MaxCols result columns and MaxRows rows
MaxCols == 2
MaxRows == 2
\* binding records that no cursor slot names any more
MaxLeakedBindings == 2
\* a column name has at most MaxNameLength bytes
MaxNameLength == 9
\* a handle has at most MaxRecords diagnostic records
MaxRecords == 2
\* statement handles the driver manager holds and no cursor slot names
MaxLeakedStmt == 2

\* ---------------------------------------------------------------- values
NULL == 0

SQL_SUCCESS           == "SQL_SUCCESS"
SQL_SUCCESS_WITH_INFO == "SQL_SUCCESS_WITH_INFO"
SQL_ERROR             == "SQL_ERROR"
SQL_INVALID_HANDLE    == "SQL_INVALID_HANDLE"
SQL_NO_DATA_FOUND     == "SQL_NO_DATA_FOUND"

\* the separator between the columns of a flat record (one byte, 0x1c)
SUBSEP == <<28>>

\* what the driver delivers for one column of one row: the length indicator
\* (SQL_NULL_DATA, -1, for a null column) and the bytes put in the buffer
Cells == << [ind |-> -1, data |-> << >>],
            [ind |-> 0, data |-> << >>],
            [ind |-> 1, data |-> <<97>>],
            [ind |-> 1, data |-> <<32>>],
            [ind |-> 1, data |-> <<28>>] >>

\* the tables of the database differ by where in Cells their contents start
Variants == 0 .. (Len(Cells) - 1)

\* column j of row i of a result set
CellValue(variant, i, j) == Cells[((variant + i + j) % Len(Cells)) + 1]

\* the name of result column j ("c1", "c2", ..)
ColumnName(j) == <<99, 48 + j>>

\* the statements a script executes: one without a result set, and the
\* queries, each with its column count, its row count and its contents
Statements ==
    {[cols |-> 0, rows |-> 0, variant |-> 0]}
        \cup [cols : 1 .. MaxCols, rows : 0 .. MaxRows, variant : Variants]

\* a statement handle on which nothing was executed
NoResultSet == [cols |-> 0, rows |-> 0, variant |-> 0, pos |-> 0]

\* no value was returned by fetch or describe-columns yet
NothingFetched ==
    [op |-> "none", nargs |-> 0, type |-> "none", num |-> 0, str |-> << >>,
     element0 |-> -1, elements |-> << >>]

\* no column was bound yet
NoBinding == [cchDisplay |-> 0, cchColumnNameLength |-> 0, cDisplaySize |-> 0, set |-> FALSE]

\* HandleDiagnosticRecord was not called yet
NoDiagnostics == [retCode |-> "none", records |-> << >>, said |-> << >>]

\* the environment after the extension was loaded: init_odbc allocated hEnv
\* and set bODBC_initialized; no statement handle is lost, and init_odbc
\* closed and disconnected nothing
LoadedEnvironment ==
    [hEnv |-> "allocated", bODBC_initialized |-> 1, leakedStmt |-> 0,
     calls |-> << >>]

ConnIndex   == 0 .. (MAX_ODBC_CONNECTIONS - 1)
CursorIndex == 0 .. (MAX_ODBC_CURSORS - 1)

\* the value init_odbc stores in every cursor slot, and close_cursor on reset
EmptyCursor ==
    [hDbc |-> NULL, hStmt |-> NULL, pBinding |-> << >>,
     nb_cols |-> 0, header_length |-> 0, row_length |-> 0]

VARIABLES
    odbc_connection_handles,          \* SQLHDBC odbc_connection_handles[]
    nb_odbc_connection_free_handles,  \* unsigned free counter
    odbc_cursor_handles,              \* struct CONN_STMT_HANDLE odbc_cursor_handles[]
    nb_odbc_cursor_free_handles,      \* unsigned free counter
    leakedDbc,                        \* driver manager: connection handles it still holds and no slot names
    stmtState,                        \* driver manager: what it holds for the statement handle of each cursor slot
    ret,                              \* the last facade call, the codes the driver manager gave it, the value it returned
    openCursors,                      \* cursor handles returned to the script and not yet passed to close-cursor
    exhaustion,                       \* progress of the exhaustion scenario (fill, rejected, drain)
    resultSet,                        \* driver manager: the result set open on each statement and its position
    leakedBindings,                   \* BINDING records allocated, not freed, and in no slot's chain
    fetched,                          \* the awk value of the last call when it was ODBC_fetch or ODBC_get_column_headers
    aborted,                          \* the process left defined behaviour
    lastBinding,                      \* AllocateBindings: what the driver reported for the last column and the cDisplaySize stored
    diagnostics,                      \* HandleDiagnosticRecord: the last call, the records of its handle, the lines passed to say
    environment                       \* hEnv and bODBC_initialized, the statement handles no slot names, the calls of the last init_odbc

vars == <<odbc_connection_handles, nb_odbc_connection_free_handles,
          odbc_cursor_handles, nb_odbc_cursor_free_handles,
          leakedDbc, stmtState, ret, openCursors, exhaustion,
          resultSet, leakedBindings, fetched, aborted, lastBinding, diagnostics,
          environment>>

reportVars == <<lastBinding, diagnostics, environment>>

stmtVars == <<resultSet, leakedBindings, fetched, aborted>>

connVars   == <<odbc_connection_handles, nb_odbc_connection_free_handles>>
cursorVars == <<odbc_cursor_handles, nb_odbc_cursor_free_handles>>

\* ------------------------------------------------------- driver manager
\* return codes of SQLAllocHandle
RcAllocHandle == {SQL_SUCCESS, SQL_SUCCESS_WITH_INFO, SQL_ERROR, SQL_INVALID_HANDLE}
\* return codes of SQLConnect
RcConnect == {SQL_SUCCESS, SQL_SUCCESS_WITH_INFO, SQL_ERROR, SQL_INVALID_HANDLE}
\* return codes of SQLFreeStmt
RcFreeStmt == {SQL_SUCCESS, SQL_SUCCESS_WITH_INFO, SQL_ERROR, SQL_INVALID_HANDLE}
\* return codes of SQLFreeHandle
RcFreeHandle == {SQL_SUCCESS, SQL_ERROR, SQL_INVALID_HANDLE}
\* what SQLDisconnect followed by SQLFreeHandle(SQL_HANDLE_DBC) can do to a
\* connection handle: release it (with its statements), keep the handle
\* after dropping its statements, or keep both
DisconnectOutcomes == {"released", "kept_without_statements", "kept"}

Succeeded(rc) == rc \in {SQL_SUCCESS, SQL_SUCCESS_WITH_INFO}

\* the statement handle of cursor slot i is held by the driver manager
StmtLive(i) == stmtState[i] \in {"live", "orphan"}

\* a call on a handle the driver manager does not hold (the null handle, a
\* statement dropped with its connection) can only give SQL_INVALID_HANDLE
RcOn(held, codes) == IF held THEN codes ELSE {SQL_INVALID_HANDLE}

\* ------------------------------------------------------------- TRYODBC
\* TRYODBC reports every code other than SQL_SUCCESS and leaves the
\* function through Exit only for SQL_ERROR
TRYODBC_exits(rc) == rc = SQL_ERROR

\* ------------------------------------------------------------ the tables
FreeConnSlots(tab) == {i \in ConnIndex : tab[i] = NULL}
FreeCursorSlots(tab) == {i \in CursorIndex : tab[i].hStmt = NULL}

\* the for loop of get_odbc_connection_handle, from index i on
RECURSIVE ScanConnections(_, _)
ScanConnections(tab, i) ==
    IF i >= MAX_ODBC_CONNECTIONS THEN -1
    ELSE IF tab[i] = NULL THEN i
    ELSE ScanConnections(tab, i + 1)

\* the for loop of get_odbc_cursor_handle, from index i on
RECURSIVE ScanCursors(_, _)
ScanCursors(tab, i) ==
    IF i >= MAX_ODBC_CURSORS THEN -1
    ELSE IF tab[i].hStmt = NULL THEN i
    ELSE ScanCursors(tab, i + 1)

\* get_odbc_connection_handle: the index it returns, -1 when none; it
\* decrements the free counter exactly when it returns an index
get_odbc_connection_handle(free, tab) ==
    IF free = 0 THEN -1 ELSE ScanConnections(tab, 0)

\* get_odbc_cursor_handle scanning the table from its last slot down
get_odbc_cursor_handle_from_top(free, tab) ==
    IF free = 0 \/ FreeCursorSlots(tab) = {} THEN -1
    ELSE CHOOSE i \in FreeCursorSlots(tab) : \A j \in FreeCursorSlots(tab) : j <= i

\* get_odbc_cursor_handle: the index it returns, -1 when none; it decrements
\* the free counter exactly when it returns an index
get_odbc_cursor_handle(free, tab) ==
    IF free = 0 THEN -1 ELSE ScanCursors(tab, 0)

\* why a get_odbc_*_handle call returned -1: the counter is zero (the
\* "no free handles" message) or the scan ran off the table
NoHandleOutcome(free) == IF free = 0 THEN "no_free_handles" ELSE "no_null_slot"

Init ==
    /\ odbc_connection_handles = [i \in ConnIndex |-> NULL]
    /\ nb_odbc_connection_free_handles = MAX_ODBC_CONNECTIONS
    /\ odbc_cursor_handles = [i \in CursorIndex |-> EmptyCursor]
    /\ nb_odbc_cursor_free_handles = MAX_ODBC_CURSORS
    /\ leakedDbc = 0
    /\ stmtState = [i \in CursorIndex |-> "none"]
    /\ ret = [op |-> "init", arg |-> -1, val |-> 0, why |-> "ok", rc |-> << >>]
    /\ openCursors = {}
    /\ exhaustion = [phase |-> "fill", drained |-> {}]
    /\ resultSet = [i \in CursorIndex |-> NoResultSet]
    /\ leakedBindings = 0
    /\ fetched = NothingFetched
    /\ aborted = FALSE
    /\ lastBinding = NoBinding
    /\ diagnostics = NoDiagnostics
    /\ environment = LoadedEnvironment

\* a process that left defined behaviour makes no further call
Running == aborted = FALSE

\* what the facade call returns to the script
Returns(op, arg, val, why, rc) ==
    ret' = [op |-> op, arg |-> arg, val |-> val, why |-> why, rc |-> rc]

ExhaustionOff == [phase |-> "off", drained |-> {}]

\* the exhaustion scenario after a connect call: it goes on while connects
\* succeed, and is complete when a connect is refused with every slot taken
ExhaustionAfterConnect(val) ==
    IF exhaustion.phase = "fill" /\ val >= 0 THEN exhaustion
    ELSE IF exhaustion.phase = "fill"
            /\ FreeConnSlots(odbc_connection_handles) = {}
         THEN [phase |-> "rejected", drained |-> {}]
    ELSE ExhaustionOff

\* ODBC_connect without its connection string: nothing is acquired
ODBC_connect_no_string ==
    /\ Returns("connect", -1, -1, "bad_args", << >>)
    /\ exhaustion' = ExhaustionAfterConnect(-1)
    /\ Running
    /\ UNCHANGED reportVars
    /\ UNCHANGED <<connVars, cursorVars, leakedDbc, stmtState, openCursors, stmtVars>>

\* ODBC_connect with a connection string; args tells whether the user name
\* and the password are there
ODBC_connect(args, rcAlloc, rcConnect) ==
    LET hConnection == get_odbc_connection_handle(nb_odbc_connection_free_handles,
                                                  odbc_connection_handles)
        hDbc == IF Succeeded(rcAlloc) THEN hConnection + 1 ELSE NULL
    IN
    /\ Running
    /\ UNCHANGED reportVars
    /\ UNCHANGED <<cursorVars, leakedDbc, stmtState, openCursors, stmtVars>>
    /\ rcAlloc \in RcOn(environment.hEnv = "allocated", RcAllocHandle)
    /\ IF hConnection = -1 THEN
          /\ Returns("connect", -1, -1,
                     NoHandleOutcome(nb_odbc_connection_free_handles), << >>)
          /\ UNCHANGED connVars
       ELSE
          /\ nb_odbc_connection_free_handles' = nb_odbc_connection_free_handles - 1
          /\ IF args # "ok" THEN
                /\ Returns("connect", -1, -1, "bad_args", << >>)
                /\ UNCHANGED odbc_connection_handles
             ELSE IF TRYODBC_exits(rcAlloc) THEN
                /\ Returns("connect", -1, -1, "alloc_failed", <<rcAlloc>>)
                /\ UNCHANGED odbc_connection_handles
             ELSE
                /\ odbc_connection_handles' =
                       [odbc_connection_handles EXCEPT ![hConnection] = hDbc]
                /\ rcConnect \in RcOn(hDbc # NULL, RcConnect)
                /\ IF TRYODBC_exits(rcConnect)
                   THEN Returns("connect", -1, -1, "connect_failed", <<rcAlloc, rcConnect>>)
                   ELSE Returns("connect", -1, hConnection, "ok", <<rcAlloc, rcConnect>>)
    /\ exhaustion' = ExhaustionAfterConnect(ret'.val)

\* the driver manager's record of the statement of cursor slot i after the
\* connection handle hDbc went through SQLDisconnect and SQLFreeHandle
StmtAfterDisconnect(i, hDbc, outcome) ==
    IF stmtState[i] = "live" /\ odbc_cursor_handles[i].hDbc = hDbc
    THEN (IF outcome = "kept" THEN "orphan" ELSE "dropped")
    ELSE stmtState[i]

\* disconnect(hConnection): SQLDisconnect and SQLFreeHandle run only on a
\* non-null slot and their return codes are ignored; the slot is set to
\* NULL and the free counter incremented in every case
disconnect(hConnection, outcome) ==
    LET hDbc == odbc_connection_handles[hConnection] IN
    /\ nb_odbc_connection_free_handles < MAX_ODBC_CONNECTIONS + MaxSurplus
    /\ IF hDbc = NULL THEN
          /\ outcome = "released"
          /\ UNCHANGED <<leakedDbc, stmtState>>
       ELSE
          /\ outcome # "released" => leakedDbc < MaxLeaked
          /\ leakedDbc' = IF outcome = "released" THEN leakedDbc ELSE leakedDbc + 1
          /\ stmtState' = [i \in CursorIndex |-> StmtAfterDisconnect(i, hDbc, outcome)]
    /\ odbc_connection_handles' = [odbc_connection_handles EXCEPT ![hConnection] = NULL]
    /\ nb_odbc_connection_free_handles' = nb_odbc_connection_free_handles + 1

\* ODBC_disconnect fetches its argument with get_argument(0, AWK_STRING, ..)
\* and then reads num_value: the double that overlays the string pointer of
\* the value.  The bits of a user-space address are a subnormal double, which
\* converts to index 0 whatever handle the script passed.
DisconnectIndex(hConnection) == 0

\* ODBC_disconnect without an argument
ODBC_disconnect_no_handle ==
    /\ Returns("disconnect", -1, -1, "bad_args", << >>)
    /\ exhaustion' = ExhaustionOff
    /\ Running
    /\ UNCHANGED reportVars
    /\ UNCHANGED <<connVars, cursorVars, leakedDbc, stmtState, openCursors, stmtVars>>

\* ODBC_disconnect
ODBC_disconnect(hConnection, outcome) ==
    /\ Running
    /\ UNCHANGED reportVars
    /\ UNCHANGED <<cursorVars, openCursors, stmtVars>>
    /\ disconnect(DisconnectIndex(hConnection), outcome)
    /\ Returns("disconnect", hConnection, 0, "ok", << >>)
    /\ exhaustion' =
          IF exhaustion.phase = "rejected" /\ hConnection \notin exhaustion.drained
          THEN [exhaustion EXCEPT !.drained = @ \cup {hConnection}]
          ELSE ExhaustionOff

\* ODBC_cursor without an argument
ODBC_cursor_no_handle ==
    /\ Returns("cursor", -1, -1, "bad_args", << >>)
    /\ exhaustion' = ExhaustionOff
    /\ Running
    /\ UNCHANGED reportVars
    /\ UNCHANGED <<connVars, cursorVars, leakedDbc, stmtState, openCursors, stmtVars>>

\* ODBC_cursor: the slot is written, and the handle returned, unless
\* SQLAllocHandle gave SQL_ERROR; the return code of SQLSetStmtAttr is ignored
ODBC_cursor(connection_index, rcAlloc) ==
    LET hCursor == get_odbc_cursor_handle(nb_odbc_cursor_free_handles,
                                          odbc_cursor_handles)
        hDbc == odbc_connection_handles[connection_index]
        hStmt == IF Succeeded(rcAlloc) THEN hCursor + 1 ELSE NULL
    IN
    /\ Running
    /\ UNCHANGED reportVars
    /\ UNCHANGED <<connVars, leakedDbc, stmtVars>>
    /\ exhaustion' = ExhaustionOff
    /\ IF hCursor = -1 THEN
          /\ Returns("cursor", connection_index, -1,
                     NoHandleOutcome(nb_odbc_cursor_free_handles), << >>)
          /\ UNCHANGED <<cursorVars, stmtState, openCursors>>
       ELSE
          /\ nb_odbc_cursor_free_handles' = nb_odbc_cursor_free_handles - 1
          /\ rcAlloc \in RcOn(hDbc # NULL, RcAllocHandle)
          /\ IF TRYODBC_exits(rcAlloc) THEN
                /\ Returns("cursor", connection_index, -1, "alloc_failed", <<rcAlloc>>)
                /\ UNCHANGED <<odbc_cursor_handles, stmtState, openCursors>>
             ELSE
                /\ odbc_cursor_handles' =
                       [odbc_cursor_handles EXCEPT ![hCursor] =
                           [hDbc |-> hDbc, hStmt |-> hStmt, pBinding |-> << >>,
                            nb_cols |-> 0, header_length |-> 0, row_length |-> 0]]
                /\ stmtState' = [stmtState EXCEPT ![hCursor] =
                                    IF hStmt = NULL THEN "none" ELSE "live"]
                /\ openCursors' = openCursors \cup {hCursor}
                /\ Returns("cursor", connection_index, hCursor, "ok", <<rcAlloc>>)

\* the chain holds a record whose buffer, name or link was never set
ChainUnsafe(chain) ==
    \E j \in 1 .. Len(chain) : chain[j].state = "raw" \/ ~chain[j].named

\* what a handler can do once it touches memory it must not touch
MemoryOutcomes(unsafe) ==
    IF unsafe THEN {"as_written", "undefined"} ELSE {"as_written"}

\* close_cursor(hCursor): SQLFreeStmt(SQL_CLOSE), then SQLFreeHandle when
\* the statement handle is not null, each under TRYODBC; then the binding
\* chain is freed, the slot reset and the free counter incremented
close_cursor(hCursor, rcFreeStmt, rcFree, memory) ==
    LET hStmt == odbc_cursor_handles[hCursor].hStmt IN
    /\ rcFreeStmt \in RcOn(StmtLive(hCursor), RcFreeStmt)
    /\ rcFree \in (IF hStmt = NULL THEN {SQL_SUCCESS}
                   ELSE RcOn(StmtLive(hCursor) /\ rcFreeStmt # SQL_INVALID_HANDLE,
                             RcFreeHandle))
    /\ IF TRYODBC_exits(rcFreeStmt) \/ (hStmt # NULL /\ TRYODBC_exits(rcFree)) THEN
          /\ memory = "as_written"
          /\ UNCHANGED <<cursorVars, stmtState, resultSet, aborted>>
       ELSE
          /\ memory \in MemoryOutcomes(ChainUnsafe(odbc_cursor_handles[hCursor].pBinding))
          /\ IF memory = "undefined" THEN
                /\ aborted' = TRUE
                /\ UNCHANGED <<cursorVars, stmtState, resultSet>>
             ELSE
                /\ nb_odbc_cursor_free_handles < MAX_ODBC_CURSORS + MaxSurplus
                /\ stmtState' = [stmtState EXCEPT ![hCursor] = "none"]
                /\ resultSet' = [resultSet EXCEPT ![hCursor] = NoResultSet]
                /\ odbc_cursor_handles' =
                       [odbc_cursor_handles EXCEPT ![hCursor] = EmptyCursor]
                /\ nb_odbc_cursor_free_handles' = nb_odbc_cursor_free_handles + 1
                /\ UNCHANGED aborted

\* ODBC_close_cursor without an argument
ODBC_close_cursor_no_handle ==
    /\ Returns("close_cursor", -1, -1, "bad_args", << >>)
    /\ exhaustion' = ExhaustionOff
    /\ Running
    /\ UNCHANGED reportVars
    /\ UNCHANGED <<connVars, cursorVars, leakedDbc, stmtState, openCursors, stmtVars>>

\* ODBC_close_cursor
ODBC_close_cursor(hCursor, rcFreeStmt, rcFree, memory) ==
    /\ Running
    /\ UNCHANGED reportVars
    /\ UNCHANGED <<connVars, leakedDbc, leakedBindings>>
    /\ fetched' = NothingFetched
    /\ exhaustion' = ExhaustionOff
    /\ close_cursor(hCursor, rcFreeStmt, rcFree, memory)
    /\ openCursors' = openCursors \ {hCursor}
    /\ Returns("close_cursor", hCursor, 0,
               IF memory = "undefined" THEN "undefined" ELSE "ok", << >>)

\* ------------------------------------------------------------ statements
\* return codes of the calls made on a statement handle
RcExecDirect ==
    {SQL_SUCCESS, SQL_SUCCESS_WITH_INFO, SQL_ERROR, SQL_INVALID_HANDLE,
     SQL_NO_DATA_FOUND}
\* SQLNumResultCols, SQLRowCount, SQLColAttribute, SQLBindCol on a statement
\* that was just executed
RcMetadata == {SQL_SUCCESS, SQL_SUCCESS_WITH_INFO, SQL_ERROR}

\* the four driver calls AllocateBindings makes for each column, in order
BindingCalls == {"display_size", "concise_type", "bind_col", "name_length"}

\* no call of AllocateBindings gives SQL_ERROR
NoFailure == [col |-> 0, call |-> "none"]

\* the first call of AllocateBindings that gives SQL_ERROR, if any
BindingFailures(cCols) ==
    {NoFailure} \cup [col : 1 .. cCols, call : BindingCalls]

\* the record of the column at which AllocateBindings left through Exit:
\* sNext and wszBuffer are set only after the second call, and the buffer
\* is known to the driver only after SQLBindCol
NodeAfter(call) ==
    CASE call \in {"display_size", "concise_type"} -> "raw"
      [] call = "bind_col" -> "unbound"
      [] OTHER -> "bound"

\* AllocateBindings: one record per column, the first one stored in
\* *ppBinding whatever it held, up to the column whose call failed
AllocateBindings(cCols, fail) ==
    [j \in 1 .. (IF fail.col = 0 THEN cCols ELSE fail.col) |->
        [state |-> IF j = fail.col THEN NodeAfter(fail.call) ELSE "bound",
         named |-> FALSE]]

\* the last record of the chain has an sNext that was never written
HasRawTail(chain) == Len(chain) > 0 /\ chain[Len(chain)].state = "raw"

\* the sum of the name lengths of the first n columns
RECURSIVE HeaderLength(_)
HeaderLength(n) ==
    IF n = 0 THEN 0 ELSE HeaderLength(n - 1) + Len(ColumnName(n))

\* get_col_headers: names the records of the chain in order and then sets
\* nb_cols; hfail is the column whose SQLColAttribute gives SQL_ERROR (0 for
\* none), at which it leaves with nb_cols as it was
get_col_headers(slot, hfail) ==
    LET chain == slot.pBinding
        done == IF hfail = 0 THEN Len(chain) ELSE hfail - 1
    IN [slot EXCEPT
          !.pBinding = [j \in 1 .. Len(chain) |->
                           [chain[j] EXCEPT !.named = (j <= done)]],
          !.header_length = HeaderLength(done),
          !.nb_cols = IF hfail = 0 THEN Len(chain) ELSE @]

\* ODBC_execute without a cursor handle or without a statement string
ODBC_execute_bad_args ==
    /\ Running
    /\ UNCHANGED reportVars
    /\ Returns("execute", -1, -1, "bad_args", << >>)
    /\ exhaustion' = ExhaustionOff
    /\ fetched' = NothingFetched
    /\ UNCHANGED <<connVars, cursorVars, leakedDbc, stmtState, openCursors,
                   resultSet, leakedBindings, aborted>>

\* ODBC_execute clearing the metadata of the cursor when SQLExecDirect fails
ODBC_execute_clearing(cursor_index, stmt, rcExec, rcNumCols, fail, hfail, rcRowCount, memory) ==
    LET slot == odbc_cursor_handles[cursor_index]
        cCols == stmt.cols
        bound == [slot EXCEPT !.pBinding = AllocateBindings(cCols, fail),
                              !.row_length = 0]
    IN
    /\ Running
    /\ UNCHANGED reportVars
    /\ rcExec \in RcOn(StmtLive(cursor_index), RcExecDirect)
    /\ UNCHANGED <<connVars, nb_odbc_cursor_free_handles, leakedDbc, stmtState,
                   openCursors>>
    /\ fetched' = NothingFetched
    /\ exhaustion' = ExhaustionOff
    /\ resultSet' =
          IF Succeeded(rcExec)
          THEN [resultSet EXCEPT ![cursor_index] =
                   [cols |-> stmt.cols, rows |-> stmt.rows,
                    variant |-> stmt.variant, pos |-> 0]]
          ELSE resultSet
    /\ IF rcExec = SQL_SUCCESS_WITH_INFO THEN
          /\ Returns("execute", cursor_index, 0, "ok", <<rcExec>>)
          /\ UNCHANGED <<odbc_cursor_handles, leakedBindings, aborted>>
       ELSE IF rcExec # SQL_SUCCESS THEN
          /\ Returns("execute", cursor_index, -1, "exec_failed", <<rcExec>>)
          /\ odbc_cursor_handles' =
                 [odbc_cursor_handles EXCEPT ![cursor_index] =
                     [slot EXCEPT !.pBinding = << >>, !.nb_cols = 0,
                                  !.header_length = 0, !.row_length = 0]]
          /\ UNCHANGED <<leakedBindings, aborted>>
       ELSE IF TRYODBC_exits(rcNumCols) THEN
          /\ Returns("execute", cursor_index, -1, "num_cols_failed", <<rcExec>>)
          /\ UNCHANGED <<odbc_cursor_handles, leakedBindings, aborted>>
       ELSE IF cCols > 0 THEN
          /\ leakedBindings + Len(slot.pBinding) <= MaxLeakedBindings
          /\ leakedBindings' = leakedBindings + Len(slot.pBinding)
          /\ hfail \in 0 .. Len(bound.pBinding)
          /\ memory \in MemoryOutcomes(hfail = 0 /\ HasRawTail(bound.pBinding))
          /\ IF memory = "undefined" THEN
                /\ aborted' = TRUE
                /\ odbc_cursor_handles' =
                       [odbc_cursor_handles EXCEPT ![cursor_index] = bound]
                /\ Returns("execute", cursor_index, 0, "undefined", <<rcExec>>)
             ELSE
                /\ UNCHANGED aborted
                /\ odbc_cursor_handles' =
                       [odbc_cursor_handles EXCEPT ![cursor_index] =
                           get_col_headers(bound, hfail)]
                /\ Returns("execute", cursor_index, cCols,
                           IF fail = NoFailure /\ hfail = 0 THEN "ok"
                           ELSE "binding_failed",
                           <<rcExec>>)
       ELSE IF TRYODBC_exits(rcRowCount) THEN
          /\ Returns("execute", cursor_index, -1, "row_count_failed", <<rcExec>>)
          /\ UNCHANGED <<odbc_cursor_handles, leakedBindings, aborted>>
       ELSE
          /\ Returns("execute", cursor_index, 0, "ok", <<rcExec>>)
          /\ UNCHANGED <<odbc_cursor_handles, leakedBindings, aborted>>

\* ODBC_execute: SQLExecDirect, then by its return code: nothing more on
\* SQL_SUCCESS_WITH_INFO; on SQL_SUCCESS the column count, and either the
\* bindings and the headers or the affected-row count; -1 otherwise
ODBC_execute(cursor_index, stmt, rcExec, rcNumCols, fail, hfail, rcRowCount, memory) ==
    LET slot == odbc_cursor_handles[cursor_index]
        cCols == stmt.cols
        bound == [slot EXCEPT !.pBinding = AllocateBindings(cCols, fail),
                              !.row_length = 0]
    IN
    /\ Running
    /\ UNCHANGED reportVars
    /\ rcExec \in RcOn(StmtLive(cursor_index), RcExecDirect)
    /\ UNCHANGED <<connVars, nb_odbc_cursor_free_handles, leakedDbc, stmtState,
                   openCursors>>
    /\ fetched' = NothingFetched
    /\ exhaustion' = ExhaustionOff
    /\ resultSet' =
          IF Succeeded(rcExec)
          THEN [resultSet EXCEPT ![cursor_index] =
                   [cols |-> stmt.cols, rows |-> stmt.rows,
                    variant |-> stmt.variant, pos |-> 0]]
          ELSE resultSet
    /\ IF rcExec = SQL_SUCCESS_WITH_INFO THEN
          /\ Returns("execute", cursor_index, 0, "ok", <<rcExec>>)
          /\ UNCHANGED <<odbc_cursor_handles, leakedBindings, aborted>>
       ELSE IF rcExec # SQL_SUCCESS THEN
          /\ Returns("execute", cursor_index, -1, "exec_failed", <<rcExec>>)
          /\ UNCHANGED <<odbc_cursor_handles, leakedBindings, aborted>>
       ELSE IF TRYODBC_exits(rcNumCols) THEN
          /\ Returns("execute", cursor_index, -1, "num_cols_failed", <<rcExec>>)
          /\ UNCHANGED <<odbc_cursor_handles, leakedBindings, aborted>>
       ELSE IF cCols > 0 THEN
          /\ leakedBindings + Len(slot.pBinding) <= MaxLeakedBindings
          /\ leakedBindings' = leakedBindings + Len(slot.pBinding)
          /\ hfail \in 0 .. Len(bound.pBinding)
          /\ memory \in MemoryOutcomes(hfail = 0 /\ HasRawTail(bound.pBinding))
          /\ IF memory = "undefined" THEN
                /\ aborted' = TRUE
                /\ odbc_cursor_handles' =
                       [odbc_cursor_handles EXCEPT ![cursor_index] = bound]
                /\ Returns("execute", cursor_index, 0, "undefined", <<rcExec>>)
             ELSE
                /\ UNCHANGED aborted
                /\ odbc_cursor_handles' =
                       [odbc_cursor_handles EXCEPT ![cursor_index] =
                           get_col_headers(bound, hfail)]
                /\ Returns("execute", cursor_index, cCols,
                           IF fail = NoFailure /\ hfail = 0 THEN "ok"
                           ELSE "binding_failed",
                           <<rcExec>>)
       ELSE IF TRYODBC_exits(rcRowCount) THEN
          /\ Returns("execute", cursor_index, -1, "row_count_failed", <<rcExec>>)
          /\ UNCHANGED <<odbc_cursor_handles, leakedBindings, aborted>>
       ELSE
          /\ Returns("execute", cursor_index, 0, "ok", <<rcExec>>)
          /\ UNCHANGED <<odbc_cursor_handles, leakedBindings, aborted>>

\* the inputs of ODBC_execute that the path taken reads
ExecuteInputs(stmt, rcExec) ==
    IF rcExec # SQL_SUCCESS
    THEN [rcNumCols : {SQL_SUCCESS}, fail : {NoFailure}, hfail : {0},
          rcRowCount : {SQL_SUCCESS}]
    ELSE IF stmt.cols > 0
    THEN [rcNumCols : RcMetadata, fail : BindingFailures(stmt.cols),
          hfail : 0 .. stmt.cols, rcRowCount : {SQL_SUCCESS}]
    ELSE [rcNumCols : RcMetadata, fail : {NoFailure}, hfail : {0},
          rcRowCount : RcMetadata]

\* ---------------------------------------------------------------- fetch
\* SQLFetch on a statement the driver manager holds: a row while the result
\* set has one left, no-data once it is exhausted, an error at any time
FetchCodes(cursor_index) ==
    LET rs == resultSet[cursor_index] IN
    IF ~StmtLive(cursor_index) THEN {SQL_INVALID_HANDLE}
    ELSE {SQL_ERROR}
         \cup (IF rs.cols > 0 /\ rs.pos < rs.rows
               THEN {SQL_SUCCESS, SQL_SUCCESS_WITH_INFO} ELSE {})
         \cup (IF rs.cols > 0 /\ rs.pos = rs.rows
               THEN {SQL_NO_DATA_FOUND} ELSE {})

\* the driver writes the buffer and the indicator of record j at this fetch
Delivered(cursor_index, rc, j) ==
    /\ Succeeded(rc)
    /\ odbc_cursor_handles[cursor_index].pBinding[j].state = "bound"
    /\ j <= resultSet[cursor_index].cols

\* what the records the driver does not write at this fetch hold: any cell,
\* by its index in Cells (index 1 at the records the driver does write)
StaleReads(cursor_index, rc) ==
    LET n == Len(odbc_cursor_handles[cursor_index].pBinding) IN
    IF TRYODBC_exits(rc) \/ rc = SQL_NO_DATA_FOUND THEN {[j \in 1 .. n |-> 1]}
    ELSE {s \in [1 .. n -> 1 .. Len(Cells)] :
             \A j \in 1 .. n : Delivered(cursor_index, rc, j) => s[j] = 1}

\* the indicators and buffers ODBC_fetch reads after SQLFetch
RowCells(cursor_index, rc, stale) ==
    LET rs == resultSet[cursor_index] IN
    [j \in 1 .. Len(odbc_cursor_handles[cursor_index].pBinding) |->
        IF Delivered(cursor_index, rc, j)
        THEN CellValue(rs.variant, rs.pos + 1, j)
        ELSE Cells[stale[j]]]

\* the sum of the first n indicators
RECURSIVE SumInd(_, _)
SumInd(cells, n) ==
    IF n = 0 THEN 0 ELSE SumInd(cells, n - 1) + cells[n].ind

\* what a column adds to the record: its buffer when the indicator is positive
Segment(cell) == IF cell.ind > 0 THEN cell.data ELSE << >>

\* the first n segments, SUBSEP before every segment but the first
RECURSIVE Flat(_, _)
Flat(segments, n) ==
    IF n = 0 THEN << >>
    ELSE Flat(segments, n - 1) \o (IF n > 1 THEN SUBSEP ELSE << >>) \o segments[n]

\* the record ODBC_fetch builds from the cells
FlatRecord(cells) ==
    Flat([j \in 1 .. Len(cells) |-> Segment(cells[j])], Len(cells))

\* An unsigned int is kept as its 32 bits read in two's complement (the
\* bits of 4294967295 are those of -1): additions of small values then
\* wrap as in the code.  For the bounds used here no sum leaves the range.
Unsigned32(x) == x

\* the size of a variable-length array of an unsigned number of bytes is at
\* least 2^31 when the sign bit is set
HugeArray(size) == size < 0

\* the serialization of a row writes outside output[] or temp[], or reads a
\* record that was never completed: output[] has row_length + nb_cols bytes
\* (unsigned arithmetic), temp[] one byte when the indicator is not positive
FetchUnsafe(slot, cells, nargs) ==
    LET n == Len(cells)
        row_length == Unsigned32(SumInd(cells, n))
        capacity == Unsigned32(row_length + slot.nb_cols)
    IN \/ HugeArray(capacity)
       \/ capacity < Len(FlatRecord(cells)) + 1
       \/ \E j \in 2 .. n : cells[j].ind <= 0
       \/ \E j \in 1 .. n : slot.pBinding[j].state = "raw"
       \/ nargs = 2 /\ \E j \in 1 .. n : ~slot.pBinding[j].named

\* the awk value of a facade return, with the array argument as the call
\* left it: the column count it stored (element0) and no other element
AwkNumber(op, nargs, num, element0) ==
    [op |-> op, nargs |-> nargs, type |-> "number", num |-> num, str |-> << >>,
     element0 |-> element0, elements |-> << >>]
AwkString(op, nargs, str, element0) ==
    [op |-> op, nargs |-> nargs, type |-> "string", num |-> 0, str |-> str,
     element0 |-> element0, elements |-> << >>]

\* a call with nargs arguments that returned no value to the script
NoValue(op, nargs) == [NothingFetched EXCEPT !.op = op, !.nargs = nargs]

\* the array argument after the loop over the chain stored one element for
\* each record (elements[i] is the element of index i)
WithElements(value, elements) == [value EXCEPT !.elements = elements]

\* the name get_col_headers stored in record j, nothing where it stored none
StoredName(chain, j) == IF chain[j].named THEN ColumnName(j) ELSE << >>

\* the elements ODBC_fetch stores in its array argument: at index j the
\* array of the one pair (pColName, temp), temp holding the column's segment
FetchElements(chain, cells, nargs) ==
    IF nargs = 2
    THEN [j \in 1 .. Len(chain) |->
             [name |-> StoredName(chain, j), value |-> Segment(cells[j])]]
    ELSE << >>

\* the elements get_column_headers_array stores under col_names
HeaderElements(chain, nargs) ==
    IF nargs = 2
    THEN [j \in 1 .. Len(chain) |-> [name |-> StoredName(chain, j), value |-> << >>]]
    ELSE << >>

\* ODBC_fetch without a cursor handle
ODBC_fetch_bad_args ==
    /\ Running
    /\ UNCHANGED reportVars
    /\ Returns("fetch", -1, -1, "bad_args", << >>)
    /\ fetched' = AwkNumber("fetch", 0, -1, -1)
    /\ exhaustion' = ExhaustionOff
    /\ UNCHANGED <<connVars, cursorVars, leakedDbc, stmtState, openCursors,
                   resultSet, leakedBindings, aborted>>

\* ODBC_fetch with one argument (flat record) or two (the array receives the
\* column count at index 0 before SQLFetch is called)
ODBC_fetch(cursor_index, nargs, rc, stale, memory) ==
    LET slot == odbc_cursor_handles[cursor_index]
        cells == RowCells(cursor_index, rc, stale)
        element0 == IF nargs = 2 THEN slot.nb_cols ELSE -1
    IN
    /\ Running
    /\ UNCHANGED reportVars
    /\ rc \in FetchCodes(cursor_index)
    /\ stale \in StaleReads(cursor_index, rc)
    /\ UNCHANGED <<connVars, nb_odbc_cursor_free_handles, leakedDbc, stmtState,
                   openCursors, leakedBindings>>
    /\ exhaustion' = ExhaustionOff
    /\ IF TRYODBC_exits(rc) THEN
          /\ memory = "as_written"
          /\ Returns("fetch", cursor_index, -1, "error", <<rc>>)
          /\ fetched' = AwkNumber("fetch", nargs, -1, element0)
          /\ UNCHANGED <<odbc_cursor_handles, resultSet, aborted>>
       ELSE IF rc = SQL_NO_DATA_FOUND THEN
          /\ memory = "as_written"
          /\ Returns("fetch", cursor_index, 0, "end_of_data", <<rc>>)
          /\ fetched' = AwkString("fetch", nargs, << >>, element0)
          /\ UNCHANGED <<odbc_cursor_handles, resultSet, aborted>>
       ELSE
          /\ memory \in MemoryOutcomes(FetchUnsafe(slot, cells, nargs))
          /\ odbc_cursor_handles' =
                [odbc_cursor_handles EXCEPT ![cursor_index].row_length =
                    Unsigned32(SumInd(cells, Len(cells)))]
          /\ resultSet' =
                IF Succeeded(rc)
                THEN [resultSet EXCEPT ![cursor_index].pos = @ + 1]
                ELSE resultSet
          /\ IF memory = "undefined" THEN
                /\ aborted' = TRUE
                /\ Returns("fetch", cursor_index, 0, "undefined", <<rc>>)
                /\ fetched' = NoValue("fetch", nargs)
             ELSE
                /\ UNCHANGED aborted
                /\ Returns("fetch", cursor_index, 0, "row", <<rc>>)
                /\ fetched' = WithElements(
                                  AwkString("fetch", nargs, FlatRecord(cells), element0),
                                  FetchElements(slot.pBinding, cells, nargs))

\* ------------------------------------------------------ describe-columns
\* the names of the first n columns, SUBSEP between them
ColumnNames(n) == Flat([j \in 1 .. n |-> ColumnName(j)], n)

\* ODBC_get_column_headers without a cursor handle
ODBC_get_column_headers_bad_args ==
    /\ Running
    /\ UNCHANGED reportVars
    /\ Returns("describe", -1, -1, "bad_args", << >>)
    /\ fetched' = AwkNumber("describe", 0, -1, -1)
    /\ exhaustion' = ExhaustionOff
    /\ UNCHANGED <<connVars, cursorVars, leakedDbc, stmtState, openCursors,
                   resultSet, leakedBindings, aborted>>

\* ODBC_get_column_headers: with one argument get_column_headers_str, the
\* names in a buffer of header_length + nb_cols bytes; with two arguments
\* get_column_headers_array, which stores nb_cols in the array and returns
\* the number of records of the chain
ODBC_get_column_headers(cursor_index, nargs, memory) ==
    LET slot == odbc_cursor_handles[cursor_index]
        n == Len(slot.pBinding)
        unsafe == \/ ChainUnsafe(slot.pBinding)
                  \/ nargs = 1
                     /\ slot.header_length + slot.nb_cols < Len(ColumnNames(n)) + 1
    IN
    /\ Running
    /\ UNCHANGED reportVars
    /\ memory \in MemoryOutcomes(unsafe)
    /\ exhaustion' = ExhaustionOff
    /\ UNCHANGED <<connVars, cursorVars, leakedDbc, stmtState, openCursors,
                   resultSet, leakedBindings>>
    /\ IF memory = "undefined" THEN
          /\ aborted' = TRUE
          /\ Returns("describe", cursor_index, 0, "undefined", << >>)
          /\ fetched' = NoValue("describe", nargs)
       ELSE
          /\ UNCHANGED aborted
          /\ Returns("describe", cursor_index, IF nargs = 1 THEN 0 ELSE n, "ok", << >>)
          /\ fetched' = IF nargs = 1
                        THEN AwkString("describe", 1, ColumnNames(n), -1)
                        ELSE WithElements(AwkNumber("describe", 2, n, slot.nb_cols),
                                          HeaderElements(slot.pBinding, 2))

\* ---------------------------------------------------------------- rewind
\* SQLFetchScroll(SQL_FETCH_FIRST) on a statement the driver manager holds:
\* the first row when the driver scrolls and the result set has one, no-data
\* when it scrolls and the result set is empty, an error otherwise (a
\* forward-only cursor, no result set) and at any time
ScrollFirstCodes(cursor_index) ==
    LET rs == resultSet[cursor_index] IN
    RcOn(StmtLive(cursor_index),
         {SQL_ERROR}
         \cup (IF rs.cols > 0 /\ rs.rows > 0
               THEN {SQL_SUCCESS, SQL_SUCCESS_WITH_INFO} ELSE {})
         \cup (IF rs.cols > 0 /\ rs.rows = 0 THEN {SQL_NO_DATA_FOUND} ELSE {}))

\* SQLFetchScroll(SQL_FETCH_PRIOR) after the first call positioned the
\* cursor on the first row or found the result set empty: there is no
\* row before, the cursor goes before the start; or an error
ScrollPriorCodes(cursor_index) ==
    RcOn(StmtLive(cursor_index), {SQL_ERROR, SQL_NO_DATA_FOUND})

\* the position of the result set after SQLFetchScroll(SQL_FETCH_FIRST)
AfterScrollFirst(rs, rc) == IF Succeeded(rc) THEN [rs EXCEPT !.pos = 1] ELSE rs

\* the position of the result set after SQLFetchScroll(SQL_FETCH_PRIOR)
AfterScrollPrior(rs, rc) ==
    IF rc = SQL_NO_DATA_FOUND THEN [rs EXCEPT !.pos = 0] ELSE rs

\* ODBC_rewind without a cursor handle
ODBC_rewind_bad_args ==
    /\ Running
    /\ UNCHANGED reportVars
    /\ Returns("rewind", -1, -1, "bad_args", << >>)
    /\ fetched' = NothingFetched
    /\ exhaustion' = ExhaustionOff
    /\ UNCHANGED <<connVars, cursorVars, leakedDbc, stmtState, openCursors,
                   resultSet, leakedBindings, aborted>>

\* ODBC_rewind: scroll to the first row, then to the row before it; each
\* call under TRYODBC
ODBC_rewind(cursor_index, rcFirst, rcPrior) ==
    LET rs == resultSet[cursor_index]
        first == AfterScrollFirst(rs, rcFirst)
    IN
    /\ Running
    /\ UNCHANGED reportVars
    /\ rcFirst \in ScrollFirstCodes(cursor_index)
    /\ fetched' = NothingFetched
    /\ exhaustion' = ExhaustionOff
    /\ UNCHANGED <<connVars, cursorVars, leakedDbc, stmtState, openCursors,
                   leakedBindings, aborted>>
    /\ IF TRYODBC_exits(rcFirst) THEN
          /\ rcPrior = rcFirst
          /\ Returns("rewind", cursor_index, -1, "first_failed", <<rcFirst>>)
          /\ UNCHANGED resultSet
       ELSE
          /\ rcPrior \in ScrollPriorCodes(cursor_index)
          /\ resultSet' = [resultSet EXCEPT
                              ![cursor_index] = AfterScrollPrior(first, rcPrior)]
          /\ IF TRYODBC_exits(rcPrior)
             THEN Returns("rewind", cursor_index, -1, "prior_failed",
                          <<rcFirst, rcPrior>>)
             ELSE Returns("rewind", cursor_index, 1, "ok", <<rcFirst, rcPrior>>)

\* ------------------------------------------------------- display widths
\* the display sizes a driver reports for a column (a SQLLEN): small ones,
\* the largest SQLSMALLINT and its successor, sizes of long columns
DisplaySizes == {0, 1, 5, 9, 10, 255, 32767, 32768, 40000, 65535, 65536, 65546}

\* the lengths a driver reports for a column name (a SQLSMALLINT)
NameLengths == 0 .. MaxNameLength

\* the conversion of a SQLLEN to SQLSMALLINT: the low 16 bits, signed
ToSQLSMALLINT(x) ==
    LET low == x % 65536 IN IF low >= 32768 THEN low - 65536 ELSE low

\* the width AllocateBindings stores in cDisplaySize
DisplayWidth(cchDisplay, cchColumnNameLength) ==
    IF ToSQLSMALLINT(cchDisplay) >= cchColumnNameLength
    THEN ToSQLSMALLINT(cchDisplay)
    ELSE cchColumnNameLength

\* the end of one turn of the loop of AllocateBindings: the driver reported
\* the display size and the name length of the column, cDisplaySize is set
AllocateBindings_cDisplaySize(cchDisplay, cchColumnNameLength) ==
    /\ aborted = FALSE
    /\ lastBinding' = [cchDisplay |-> cchDisplay,
                       cchColumnNameLength |-> cchColumnNameLength,
                       cDisplaySize |-> DisplayWidth(cchDisplay, cchColumnNameLength),
                       set |-> TRUE]
    /\ UNCHANGED <<connVars, cursorVars, leakedDbc, stmtState, ret, openCursors,
                   exhaustion, stmtVars, diagnostics, environment>>

\* ------------------------------------------------------------ diagnostics
\* the size of wszMessage[] and of output[] in HandleDiagnosticRecord
MAX_MESSAGE_LENGTH == 1000

\* the lengths of the message texts of the records: a short one, one that
\* fits wszMessage[] but not output[] once framed, one longer than both
MessageLengths == {10, 980, 1200}

\* a diagnostic record: its SQLSTATE is 01004 or not, the length of its text
DiagRecords == [suppressed : BOOLEAN, length : MessageLengths]

\* the records a handle can have
RecordLists == UNION {[1 .. n -> DiagRecords] : n \in 0 .. MaxRecords}

\* the codes HandleDiagnosticRecord is called with (any code but SQL_SUCCESS)
ReportedCodes == {SQL_SUCCESS_WITH_INFO, SQL_ERROR, SQL_INVALID_HANDLE,
                  SQL_NO_DATA_FOUND}

\* SQLGetDiagRec(iRec) with a buffer of MAX_MESSAGE_LENGTH bytes: no data
\* past the last record, success with info when the text and its terminator
\* do not fit the buffer, success otherwise
SQLGetDiagRec(records, iRec) ==
    IF iRec > Len(records) THEN SQL_NO_DATA_FOUND
    ELSE IF records[iRec].length + 1 > MAX_MESSAGE_LENGTH THEN SQL_SUCCESS_WITH_INFO
    ELSE SQL_SUCCESS

\* the bytes sprintf writes for "[%s]%s\nnative return code: %d\n": the
\* brackets, the 5 bytes of the state, the text, 22 bytes around a native
\* code of one digit, the terminator
DiagLineLength(length) == 1 + 5 + 1 + length + 1 + 20 + 1 + 1 + 1

\* the line composed for record iRec: in full when the text is in the
\* buffer, the second SQLGetDiagRec being given MAX_MESSAGE_LENGTH again
DiagLine(records, iRec) ==
    [iRec |-> iRec, full |-> ~(MAX_MESSAGE_LENGTH < records[iRec].length)]

\* the lines passed to say by the loop from record iRec on: the loop goes
\* on while SQLGetDiagRec returns SQL_SUCCESS
RECURSIVE DiagLoop(_, _)
DiagLoop(records, iRec) ==
    IF SQLGetDiagRec(records, iRec) # SQL_SUCCESS THEN << >>
    ELSE (IF records[iRec].suppressed THEN << >> ELSE <<DiagLine(records, iRec)>>)
         \o DiagLoop(records, iRec + 1)

\* a line composed by the loop is longer than output[]
DiagUnsafe(records) ==
    \E k \in 1 .. Len(DiagLoop(records, 1)) :
       DiagLineLength(records[DiagLoop(records, 1)[k].iRec].length) > MAX_MESSAGE_LENGTH

\* HandleDiagnosticRecord(hHandle, hType, retCode), the handle having the
\* given records
HandleDiagnosticRecord(retCode, records, memory) ==
    /\ aborted = FALSE
    /\ UNCHANGED <<connVars, cursorVars, leakedDbc, stmtState, ret, openCursors,
                   exhaustion, resultSet, leakedBindings, fetched, lastBinding,
                   environment>>
    /\ IF retCode = SQL_INVALID_HANDLE THEN
          /\ memory = "as_written"
          /\ diagnostics' = [retCode |-> retCode, records |-> records, said |-> << >>]
          /\ UNCHANGED aborted
       ELSE
          /\ memory \in MemoryOutcomes(DiagUnsafe(records))
          /\ IF memory = "undefined" THEN
                /\ aborted' = TRUE
                /\ diagnostics' = [retCode |-> retCode, records |-> records,
                                   said |-> << >>]
             ELSE
                /\ UNCHANGED aborted
                /\ diagnostics' = [retCode |-> retCode, records |-> records,
                                   said |-> DiagLoop(records, 1)]

\* ------------------------------------------------- handles out of range
\* the handles a script can pass that name no slot: the -1 a failed connect
\* or get-cursor returned, and the index after the last slot
OutOfRangeConnections == {-1, MAX_ODBC_CONNECTIONS}
OutOfRangeCursors == {-1, MAX_ODBC_CURSORS}

\* a word read outside a table that is neither NULL nor a handle the driver
\* manager holds
WildHandle == -1

\* what a read outside a table can find where a handle is expected
WildWords == {NULL, WildHandle}

\* ODBC_cursor with a connection handle that names no slot: the cursor slot
\* is taken first, then odbc_connection_handles[connection_index] is read
\* outside the table and passed to SQLAllocHandle, which can only give
\* SQL_INVALID_HANDLE for it; the slot is written and its index returned
ODBC_cursor_out_of_range(connection_index, word, memory) ==
    LET hCursor == get_odbc_cursor_handle(nb_odbc_cursor_free_handles,
                                          odbc_cursor_handles)
    IN
    /\ Running
    /\ UNCHANGED reportVars
    /\ UNCHANGED <<connVars, leakedDbc, resultSet, leakedBindings, fetched>>
    /\ exhaustion' = ExhaustionOff
    /\ IF hCursor = -1 THEN
          /\ memory = "as_written"
          /\ Returns("cursor", connection_index, -1,
                     NoHandleOutcome(nb_odbc_cursor_free_handles), << >>)
          /\ UNCHANGED <<cursorVars, stmtState, openCursors, aborted>>
       ELSE
          /\ nb_odbc_cursor_free_handles' = nb_odbc_cursor_free_handles - 1
          /\ IF memory = "undefined" THEN
                /\ aborted' = TRUE
                /\ Returns("cursor", connection_index, -1, "undefined", << >>)
                /\ UNCHANGED <<odbc_cursor_handles, stmtState, openCursors>>
             ELSE
                /\ UNCHANGED aborted
                /\ odbc_cursor_handles' =
                       [odbc_cursor_handles EXCEPT ![hCursor] =
                           [EmptyCursor EXCEPT !.hDbc = word]]
                /\ stmtState' = [stmtState EXCEPT ![hCursor] = "none"]
                /\ openCursors' = openCursors \cup {hCursor}
                /\ Returns("cursor", connection_index, hCursor, "ok",
                           <<SQL_INVALID_HANDLE>>)

\* ODBC_close_cursor with a cursor handle that names no slot: close_cursor
\* reads hStmt and pBinding outside the table; as written, the driver calls
\* give SQL_INVALID_HANDLE, no record is freed where the word read as
\* pBinding is null, the words after the table are overwritten and the free
\* counter is incremented
ODBC_close_cursor_out_of_range(hCursor, memory) ==
    /\ Running
    /\ UNCHANGED reportVars
    /\ UNCHANGED <<connVars, odbc_cursor_handles, leakedDbc, stmtState, resultSet,
                   leakedBindings>>
    /\ fetched' = NothingFetched
    /\ exhaustion' = ExhaustionOff
    /\ openCursors' = openCursors \ {hCursor}
    /\ IF memory = "undefined" THEN
          /\ aborted' = TRUE
          /\ UNCHANGED nb_odbc_cursor_free_handles
          /\ Returns("close_cursor", hCursor, 0, "undefined", << >>)
       ELSE
          /\ UNCHANGED aborted
          /\ nb_odbc_cursor_free_handles < MAX_ODBC_CURSORS + MaxSurplus
          /\ nb_odbc_cursor_free_handles' = nb_odbc_cursor_free_handles + 1
          /\ Returns("close_cursor", hCursor, 0, "ok",
                     <<SQL_INVALID_HANDLE>>)

\* the functions that take a cursor handle and call the driver manager on
\* odbc_cursor_handles[cursor_index].hStmt
StatementOperations == {"execute", "fetch", "describe", "rewind"}

\* what such a function returns when every driver call it makes gives
\* SQL_INVALID_HANDLE and the chain it reads is empty: -1 from ODBC_execute,
\* 1 from ODBC_rewind (TRYODBC goes on), the empty string or 0 otherwise
InvalidHandleReturn(op) ==
    CASE op = "execute" -> -1
      [] op = "rewind" -> 1
      [] OTHER -> 0

\* ODBC_execute, ODBC_fetch, ODBC_get_column_headers or ODBC_rewind with a
\* cursor handle that names no slot: the fields of the slot are read
\* outside the table; as written, the words read as hStmt and pBinding are
\* no handle and no chain
ODBC_statement_out_of_range(op, cursor_index, memory) ==
    /\ Running
    /\ UNCHANGED reportVars
    /\ UNCHANGED <<connVars, cursorVars, leakedDbc, stmtState, openCursors,
                   resultSet, leakedBindings>>
    /\ exhaustion' = ExhaustionOff
    /\ fetched' = IF op \in {"fetch", "describe"} THEN NoValue(op, 1)
                  ELSE NothingFetched
    /\ IF memory = "undefined" THEN
          /\ aborted' = TRUE
          /\ Returns(op, cursor_index, 0, "undefined", << >>)
       ELSE
          /\ UNCHANGED aborted
          /\ Returns(op, cursor_index, InvalidHandleReturn(op), "invalid_handle",
                     <<SQL_INVALID_HANDLE>>)

\* ------------------------------------------------------ re-initialization
\* return codes of SQLAllocHandle(SQL_HANDLE_ENV) and of SQLSetEnvAttr
RcEnvironment == {SQL_SUCCESS, SQL_SUCCESS_WITH_INFO, SQL_ERROR}

\* the tables and the driver manager's records while init_odbc runs its two
\* loops: the state before the first close_cursor
BeforeReset ==
    [cursors |-> odbc_cursor_handles, cursor_free |-> nb_odbc_cursor_free_handles,
     connections |-> odbc_connection_handles,
     connection_free |-> nb_odbc_connection_free_handles,
     stmt |-> stmtState, results |-> resultSet, leaked |-> leakedDbc,
     aborted |-> FALSE, calls |-> << >>]

\* the codes and the memory outcome close_cursor(i) can meet when init_odbc
\* calls it (one fixed value where the call is not made)
CloseInputs(i) ==
    IF odbc_cursor_handles[i].hStmt = NULL
    THEN {[rcFreeStmt |-> SQL_SUCCESS, rcFree |-> SQL_SUCCESS, memory |-> "as_written"]}
    ELSE {in \in [rcFreeStmt : RcOn(StmtLive(i), RcFreeStmt), rcFree : RcFreeHandle,
                  memory : MemoryOutcomes(ChainUnsafe(odbc_cursor_handles[i].pBinding))] :
             /\ in.rcFree \in (IF TRYODBC_exits(in.rcFreeStmt) THEN {SQL_SUCCESS}
                               ELSE RcOn(StmtLive(i) /\ in.rcFreeStmt # SQL_INVALID_HANDLE,
                                         RcFreeHandle))
             /\ (TRYODBC_exits(in.rcFreeStmt) \/ TRYODBC_exits(in.rcFree))
                    => in.memory = "as_written"}

\* what SQLDisconnect and SQLFreeHandle can do when init_odbc calls
\* disconnect(i) (one fixed value where the slot is null)
DisconnectInputs(i) ==
    IF odbc_connection_handles[i] = NULL THEN {"released"} ELSE DisconnectOutcomes

\* the codes of the three calls init_odbc makes on the environment, a call
\* that is not made having the one code SQL_SUCCESS
EnvironmentInputs ==
    {in \in [rcFreeEnv : RcFreeHandle, rcAllocEnv : RcEnvironment,
             rcSetEnvAttr : RcEnvironment] :
        /\ TRYODBC_exits(in.rcFreeEnv) => in.rcAllocEnv = SQL_SUCCESS
        /\ (TRYODBC_exits(in.rcFreeEnv) \/ in.rcAllocEnv = SQL_ERROR)
              => in.rcSetEnvAttr = SQL_SUCCESS}

\* the first loop of init_odbc at slot i: close_cursor(i) when the statement
\* handle of the slot is not null
ResetCursor(s, i, in) ==
    IF s.aborted \/ s.cursors[i].hStmt = NULL THEN s
    ELSE LET called == [s EXCEPT !.calls = Append(@, [call |-> "close_cursor",
                                                      index |-> i])]
         IN IF TRYODBC_exits(in.rcFreeStmt) \/ TRYODBC_exits(in.rcFree) THEN called
            ELSE IF in.memory = "undefined" THEN [called EXCEPT !.aborted = TRUE]
            ELSE [called EXCEPT !.cursors[i] = EmptyCursor,
                                !.cursor_free = @ + 1,
                                !.stmt[i] = "none",
                                !.results[i] = NoResultSet]

\* the first loop of init_odbc, from slot i on
RECURSIVE ResetCursors(_, _, _)
ResetCursors(s, close, i) ==
    IF i >= MAX_ODBC_CURSORS THEN s
    ELSE ResetCursors(ResetCursor(s, i, close[i]), close, i + 1)

\* the second loop of init_odbc at slot i: disconnect(i) when the slot is
\* not null; the statements the handle still has go with it or lose it
ResetConnection(s, i, outcome) ==
    IF s.aborted \/ s.connections[i] = NULL THEN s
    ELSE [s EXCEPT
            !.calls = Append(@, [call |-> "disconnect", index |-> i]),
            !.connections[i] = NULL,
            !.connection_free = @ + 1,
            !.leaked = IF outcome = "released" THEN @ ELSE @ + 1,
            !.stmt = [j \in CursorIndex |->
                         IF s.stmt[j] = "live"
                            /\ s.cursors[j].hDbc = s.connections[i]
                         THEN (IF outcome = "kept" THEN "orphan" ELSE "dropped")
                         ELSE s.stmt[j]]]

\* the second loop of init_odbc, from slot i on
RECURSIVE ResetConnections(_, _, _)
ResetConnections(s, outcome, i) ==
    IF i >= MAX_ODBC_CONNECTIONS THEN s
    ELSE ResetConnections(ResetConnection(s, i, outcome[i]), outcome, i + 1)

\* the binding records in the chains of the first n slots
RECURSIVE ChainRecords(_, _)
ChainRecords(cursors, n) ==
    IF n = 0 THEN 0 ELSE ChainRecords(cursors, n - 1) + Len(cursors[n - 1].pBinding)

\* the binding records of the slots init_odbc overwrites with a chain in them
OverwrittenBindings(cursors) == ChainRecords(cursors, MAX_ODBC_CURSORS)

\* the statement handles the driver manager holds in the slots init_odbc
\* overwrites
OverwrittenStatements(cursors, stmt) ==
    Cardinality({i \in CursorIndex : stmt[i] \in {"live", "orphan"}})

\* init_odbc once the extension is loaded: close_cursor on every slot with
\* a statement handle, disconnect on every slot with a connection handle,
\* SQLFreeHandle of the environment under TRYODBC; then a new environment,
\* its version attribute under TRYODBC, and both tables and both counters
\* set to their initial values
init_odbc(close, outcome, rcFreeEnv, rcAllocEnv, rcSetEnvAttr) ==
    \E drained \in {ResetConnections(ResetCursors(BeforeReset, close, 0), outcome, 0)} :
    LET why == IF drained.aborted THEN "undefined"
               ELSE IF TRYODBC_exits(rcFreeEnv) THEN "free_env_failed"
               ELSE IF rcAllocEnv = SQL_ERROR THEN "alloc_env_failed"
               ELSE IF TRYODBC_exits(rcSetEnvAttr) THEN "set_env_attr_failed"
               ELSE "ok"
    IN
    /\ Running
    /\ environment.bODBC_initialized = 1
    /\ \A i \in CursorIndex : close[i] \in CloseInputs(i)
    /\ \A i \in ConnIndex : outcome[i] \in DisconnectInputs(i)
    /\ drained.aborted
          \/ rcFreeEnv \in RcOn(environment.hEnv = "allocated", RcFreeHandle)
    /\ drained.cursor_free <= MAX_ODBC_CURSORS + MaxSurplus
    /\ drained.connection_free <= MAX_ODBC_CONNECTIONS + MaxSurplus
    /\ drained.leaked <= MaxLeaked
    /\ Returns("init_odbc", -1, IF why = "ok" THEN 1 ELSE 0, why, << >>)
    /\ aborted' = drained.aborted
    /\ leakedDbc' = drained.leaked
    /\ fetched' = NothingFetched
    /\ exhaustion' = ExhaustionOff
    /\ UNCHANGED <<openCursors, lastBinding, diagnostics>>
    /\ IF why = "ok" THEN
          /\ environment.leakedStmt
                 + OverwrittenStatements(drained.cursors, drained.stmt) <= MaxLeakedStmt
          /\ leakedBindings + OverwrittenBindings(drained.cursors) <= MaxLeakedBindings
          /\ odbc_connection_handles' = [i \in ConnIndex |-> NULL]
          /\ nb_odbc_connection_free_handles' = MAX_ODBC_CONNECTIONS
          /\ odbc_cursor_handles' = [i \in CursorIndex |-> EmptyCursor]
          /\ nb_odbc_cursor_free_handles' = MAX_ODBC_CURSORS
          /\ stmtState' = [i \in CursorIndex |-> "none"]
          /\ resultSet' = [i \in CursorIndex |-> NoResultSet]
          /\ leakedBindings' = leakedBindings + OverwrittenBindings(drained.cursors)
          /\ environment' =
                 [environment EXCEPT
                     !.hEnv = "allocated",
                     !.leakedStmt = @ + OverwrittenStatements(drained.cursors,
                                                              drained.stmt),
                     !.calls = drained.calls]
       ELSE
          /\ odbc_connection_handles' = drained.connections
          /\ nb_odbc_connection_free_handles' = drained.connection_free
          /\ odbc_cursor_handles' = drained.cursors
          /\ nb_odbc_cursor_free_handles' = drained.cursor_free
          /\ stmtState' = drained.stmt
          /\ resultSet' = drained.results
          /\ UNCHANGED leakedBindings
          /\ environment' =
                 [environment EXCEPT
                     !.hEnv = IF why \in {"undefined", "free_env_failed"} THEN @
                              ELSE IF why = "alloc_env_failed" THEN "null"
                              ELSE "allocated",
                     !.calls = drained.calls]

\* the connect calls
NextConnect ==
    \/ ODBC_connect_no_string
    \/ \E args \in {"ok", "no_user_name", "no_password"},
          rcAlloc \in RcAllocHandle, rcConnect \in RcConnect :
          ODBC_connect(args, rcAlloc, rcConnect)

\* the disconnect calls
NextDisconnect ==
    \/ ODBC_disconnect_no_handle
    \/ \E h \in ConnIndex, outcome \in DisconnectOutcomes :
          ODBC_disconnect(h, outcome)

\* the calls on the cursor table
NextCursor ==
    \/ ODBC_cursor_no_handle
    \/ \E c \in ConnIndex, rcAlloc \in RcAllocHandle :
          ODBC_cursor(c, rcAlloc)
    \/ ODBC_close_cursor_no_handle
    \/ \E h \in CursorIndex, rcFreeStmt \in RcFreeStmt, rcFree \in RcFreeHandle,
          memory \in MemoryOutcomes(TRUE) :
          ODBC_close_cursor(h, rcFreeStmt, rcFree, memory)

\* ------------------------------------------------------------- the script
\* s > t for two strings, byte by byte
RECURSIVE StringGreater(_, _)
StringGreater(s, t) ==
    IF s = << >> THEN FALSE
    ELSE IF t = << >> THEN TRUE
    ELSE IF Head(s) # Head(t) THEN Head(s) > Head(t)
    ELSE StringGreater(Tail(s), Tail(t))

\* split(row, col_data, SUBSEP): the fields of the row, none for the empty
\* string, cut at every separator byte
RECURSIVE SplitFrom(_, _)
SplitFrom(str, field) ==
    IF str = << >> THEN <<field>>
    ELSE IF <<Head(str)>> = SUBSEP THEN <<field>> \o SplitFrom(Tail(str), << >>)
    ELSE SplitFrom(Tail(str), Append(field, Head(str)))
Split(str) == IF str = << >> THEN << >> ELSE SplitFrom(str, << >>)

\* col_data[i] after the split: the empty string where split set no field
FlatValue(str, i) == IF i <= Len(Split(str)) THEN Split(str)[i] ELSE << >>

\* gsub(/ +$/, "", value): the value without its trailing spaces
RECURSIVE Trim(_)
Trim(value) ==
    IF value # << >> /\ value[Len(value)] = 32
    THEN Trim(SubSeq(value, 1, Len(value) - 1))
    ELSE value

\* the condition of the fetch loop of the script, (row = ODBC_fetch(..)) > -1:
\* awk compares two numbers as numbers, and a string with a number as
\* strings, the number -1 being the string "-1"
FetchLoopCondition(value) ==
    IF value.type = "number" THEN value.num > -1
    ELSE StringGreater(value.str, <<45, 49>>)

\* the inputs of an ODBC_execute whose binding calls all succeed
ExecuteInputsBound(stmt, rcExec) ==
    {in \in ExecuteInputs(stmt, rcExec) : in.fail = NoFailure /\ in.hfail = 0}

\* ODBC_execute on any cursor index, for the statements given, with or
\* without the failures of the binding calls
ExecuteCalls(statements, failures) ==
    \E c \in CursorIndex, stmt \in statements, rcExec \in RcExecDirect :
       \E in \in (IF failures THEN ExecuteInputs(stmt, rcExec)
                               ELSE ExecuteInputsBound(stmt, rcExec)) :
          \E memory \in MemoryOutcomes(NodeAfter(in.fail.call) = "raw") :
             ODBC_execute(c, stmt, rcExec, in.rcNumCols, in.fail, in.hfail,
                          in.rcRowCount, memory)

\* ODBC_fetch on any cursor index, in flat and in array mode
FetchCalls ==
    \E c \in CursorIndex, nargs \in {1, 2},
       rc \in {SQL_SUCCESS, SQL_SUCCESS_WITH_INFO, SQL_NO_DATA_FOUND,
               SQL_ERROR, SQL_INVALID_HANDLE},
       memory \in MemoryOutcomes(TRUE) :
       \E stale \in StaleReads(c, rc) : ODBC_fetch(c, nargs, rc, stale, memory)

\* ODBC_rewind on any cursor index
RewindCalls ==
    \E c \in CursorIndex,
       rcFirst, rcPrior \in {SQL_SUCCESS, SQL_SUCCESS_WITH_INFO, SQL_NO_DATA_FOUND,
                             SQL_ERROR, SQL_INVALID_HANDLE} :
       ODBC_rewind(c, rcFirst, rcPrior)

\* ODBC_get_column_headers on any cursor index, in string and in array mode
DescribeCalls ==
    \E c \in CursorIndex, nargs \in {1, 2}, memory \in MemoryOutcomes(TRUE) :
       ODBC_get_column_headers(c, nargs, memory)

\* the calls on a statement
NextStatement ==
    \/ ODBC_execute_bad_args
    \/ ExecuteCalls(Statements, TRUE)
    \/ ODBC_fetch_bad_args
    \/ FetchCalls
    \/ ODBC_get_column_headers_bad_args
    \/ DescribeCalls
    \/ ODBC_rewind_bad_args
    \/ RewindCalls

\* a script with one connection and one cursor at a time
NextSession ==
    \/ /\ FreeConnSlots(odbc_connection_handles) = ConnIndex
       /\ ODBC_connect("ok", SQL_SUCCESS, SQL_SUCCESS)
    \/ /\ FreeCursorSlots(odbc_cursor_handles) = CursorIndex
       /\ ODBC_cursor(0, SQL_SUCCESS)
    \/ \E h \in CursorIndex, rcFreeStmt \in RcFreeStmt, rcFree \in RcFreeHandle,
          memory \in MemoryOutcomes(TRUE) :
          ODBC_close_cursor(h, rcFreeStmt, rcFree, memory)

\* the binding of a column, for every size and length the driver reports
NextBinding ==
    \E cchDisplay \in DisplaySizes, cchColumnNameLength \in NameLengths :
       AllocateBindings_cDisplaySize(cchDisplay, cchColumnNameLength)

\* init_odbc with every outcome of the calls it makes
NextInit ==
    \E close \in [CursorIndex -> UNION {CloseInputs(i) : i \in CursorIndex}],
       outcome \in [ConnIndex -> DisconnectOutcomes] :
       /\ \A i \in CursorIndex : close[i] \in CloseInputs(i)
       /\ \A i \in ConnIndex : outcome[i] \in DisconnectInputs(i)
       /\ \E in \in EnvironmentInputs :
             init_odbc(close, outcome, in.rcFreeEnv, in.rcAllocEnv, in.rcSetEnvAttr)

\* the calls with a handle that names no slot
NextOutOfRange ==
    \/ \E c \in OutOfRangeConnections, word \in WildWords,
          memory \in MemoryOutcomes(TRUE) :
          ODBC_cursor_out_of_range(c, word, memory)
    \/ \E h \in OutOfRangeCursors, memory \in MemoryOutcomes(TRUE) :
          ODBC_close_cursor_out_of_range(h, memory)
    \/ \E op \in StatementOperations, h \in OutOfRangeCursors,
          memory \in MemoryOutcomes(TRUE) :
          ODBC_statement_out_of_range(op, h, memory)
    \/ \E h \in OutOfRangeConnections, outcome \in DisconnectOutcomes :
          ODBC_disconnect(h, outcome)

\* the report of the diagnostic records of a handle
NextDiagnostics ==
    \E retCode \in ReportedCodes, records \in RecordLists,
       memory \in MemoryOutcomes(TRUE) :
       HandleDiagnosticRecord(retCode, records, memory)

Next ==
    \/ NextConnect \/ NextDisconnect \/ NextCursor \/ NextStatement
    \/ NextBinding \/ NextDiagnostics \/ NextInit \/ NextOutOfRange

Spec == Init /\ [][Next]_vars

\* a script that only connects and disconnects
SpecConnection == Init /\ [][NextConnect \/ NextDisconnect]_vars

\* a script that connects, then opens and closes cursors, and never disconnects
SpecCursor == Init /\ [][NextConnect \/ NextCursor]_vars

\* the statements whose result set is empty, one for each column count
StatementsWithoutRows == {stmt \in Statements : stmt.rows = 0 /\ stmt.variant = 0}

\* a script that works on one connection with one cursor at a time: it
\* executes statements and describes their columns, with every failure of
\* the binding of the columns, and never fetches
NextExecute ==
    \/ NextSession
    \/ ODBC_execute_bad_args
    \/ ExecuteCalls(StatementsWithoutRows, TRUE)
    \/ ODBC_get_column_headers_bad_args
    \/ DescribeCalls

SpecExecute == Init /\ [][NextExecute]_vars

\* a script with one connection and one cursor at a time, with a driver
\* manager that allocates and releases the handles without a failure
NextSessionClean ==
    \/ /\ FreeConnSlots(odbc_connection_handles) = ConnIndex
       /\ ODBC_connect("ok", SQL_SUCCESS, SQL_SUCCESS)
    \/ /\ FreeCursorSlots(odbc_cursor_handles) = CursorIndex
       /\ ODBC_cursor(0, SQL_SUCCESS)
    \/ \E h \in openCursors :
          ODBC_close_cursor(h, SQL_SUCCESS, SQL_SUCCESS, "as_written")

\* a script that works on one connection with one cursor at a time: it
\* executes statements whose columns are bound without a failure and
\* fetches their rows, also on cursor handles it closed or never obtained
NextFetch ==
    \/ NextSessionClean
    \/ ExecuteCalls(Statements, FALSE)
    \/ ODBC_fetch_bad_args
    \/ FetchCalls

SpecFetch == Init /\ [][NextFetch]_vars

\* the columns AllocateBindings binds
SpecBinding == Init /\ [][NextBinding]_vars

\* the calls of HandleDiagnosticRecord
SpecDiagnostics == Init /\ [][NextDiagnostics]_vars

\* init_odbc with a driver manager that gives SQL_SUCCESS or SQL_ERROR to
\* SQLFreeStmt and to SQLFreeHandle of the environment, releases or keeps a
\* connection, and fails no other call
InitCalls ==
    \E close \in [CursorIndex -> UNION {CloseInputs(i) : i \in CursorIndex}],
       outcome \in [ConnIndex -> {"released", "kept"}],
       rcFreeEnv \in {SQL_SUCCESS, SQL_ERROR} :
       /\ \A i \in CursorIndex :
             /\ close[i].rcFreeStmt # SQL_SUCCESS_WITH_INFO
             /\ close[i].rcFree # SQL_ERROR
       /\ init_odbc(close, outcome, rcFreeEnv, SQL_SUCCESS, SQL_SUCCESS)

\* a script that opens connections and cursors and executes one query on a
\* cursor, with a driver manager that fails none of these calls, and whose
\* host runs init_odbc again at any time
NextReset ==
    \/ ODBC_connect("ok", SQL_SUCCESS, SQL_SUCCESS)
    \/ \E c \in ConnIndex : ODBC_cursor(c, SQL_SUCCESS)
    \/ \E c \in CursorIndex, stmt \in StatementsWithoutRows :
          /\ odbc_cursor_handles[c].pBinding = << >>
          /\ stmt.cols = 1
          /\ ODBC_execute(c, stmt, SQL_SUCCESS, SQL_SUCCESS, NoFailure, 0,
                          SQL_SUCCESS, "as_written")
    \/ InitCalls

SpecReset == Init /\ [][NextReset]_vars

\* a script that works on one connection with one cursor at a time: it
\* executes a query of one column, with every failure of the binding of the
\* column, fetches, asks for the column names, closes its cursor, also a
\* second time, and its host runs init_odbc again at any time
NextLifetime ==
    \/ /\ FreeConnSlots(odbc_connection_handles) = ConnIndex
       /\ ODBC_connect("ok", SQL_SUCCESS, SQL_SUCCESS)
    \/ /\ FreeCursorSlots(odbc_cursor_handles) = CursorIndex
       /\ ODBC_cursor(0, SQL_SUCCESS)
    \/ \E memory \in MemoryOutcomes(TRUE) :
          ODBC_close_cursor(0, IF StmtLive(0) THEN SQL_SUCCESS ELSE SQL_INVALID_HANDLE,
                            IF odbc_cursor_handles[0].hStmt = NULL THEN SQL_SUCCESS
                            ELSE IF StmtLive(0) THEN SQL_SUCCESS
                            ELSE SQL_INVALID_HANDLE,
                            memory)
    \/ \E stmt \in StatementsWithoutRows, fail \in BindingFailures(1), hfail \in 0 .. 1,
          memory \in MemoryOutcomes(TRUE) :
          /\ stmt.cols = 1
          /\ memory \in MemoryOutcomes(NodeAfter(fail.call) = "raw")
          /\ ODBC_execute(0, stmt, SQL_SUCCESS, SQL_SUCCESS, fail, hfail,
                          SQL_SUCCESS, memory)
    \/ \E nargs \in {1, 2}, rc \in FetchCodes(0), memory \in MemoryOutcomes(TRUE) :
          \E stale \in StaleReads(0, rc) : ODBC_fetch(0, nargs, rc, stale, memory)
    \/ \E nargs \in {1, 2}, memory \in MemoryOutcomes(TRUE) :
          ODBC_get_column_headers(0, nargs, memory)
    \/ InitCalls

SpecLifetime == Init /\ [][NextLifetime]_vars

\* a script that opens connections and cursors and closes the cursors, with
\* a driver manager that fails none of these calls, and that also passes
\* handles that name no slot
NextRange ==
    \/ ODBC_connect("ok", SQL_SUCCESS, SQL_SUCCESS)
    \/ \E c \in ConnIndex : ODBC_cursor(c, SQL_SUCCESS)
    \/ \E h \in openCursors :
          ODBC_close_cursor(h, IF StmtLive(h) THEN SQL_SUCCESS ELSE SQL_INVALID_HANDLE,
                            IF odbc_cursor_handles[h].hStmt = NULL THEN SQL_SUCCESS
                            ELSE IF StmtLive(h) THEN SQL_SUCCESS
                            ELSE SQL_INVALID_HANDLE,
                            "as_written")
    \/ NextOutOfRange

SpecRange == Init /\ [][NextRange]_vars

\* the statement without a result set and the queries on the one-row
\* table whose row has neither a null nor an empty first column
StatementsOfOneTable ==
    {stmt \in Statements : stmt.cols = 0 \/ (stmt.variant = 2 /\ stmt.rows = 1)}

\* a script with one connection and one cursor that executes statements,
\* with every return code of SQLExecDirect, SQLNumResultCols and
\* SQLRowCount, and fetches flat records in between
NextExecuteFailure ==
    \/ NextSessionClean
    \/ ODBC_execute_bad_args
    \/ ExecuteCalls(StatementsOfOneTable, FALSE)
    \/ \E c \in CursorIndex, rc \in {SQL_SUCCESS, SQL_NO_DATA_FOUND},
          memory \in MemoryOutcomes(TRUE) :
          \E stale \in StaleReads(c, rc) : ODBC_fetch(c, 1, rc, stale, memory)

SpecExecuteFailure == Init /\ [][NextExecuteFailure]_vars

\* the same script when it also asks for the column names and rewinds
NextRows ==
    \/ NextFetch
    \/ ODBC_get_column_headers_bad_args
    \/ DescribeCalls
    \/ ODBC_rewind_bad_args
    \/ RewindCalls

SpecRows == Init /\ [][NextRows]_vars

\* ------------------------------------------------------------------ claims

\* C1: in every reachable state the cursor free counter equals the number of
\* cursor slots whose statement handle is null.
C1_CursorCounterCountsNullSlots ==
    nb_odbc_cursor_free_handles = Cardinality(FreeCursorSlots(odbc_cursor_handles))

\* C2: in every reachable state the connection free counter equals the number
\* of connection slots whose native handle is null.
C2_ConnectionCounterCountsNullSlots ==
    nb_odbc_connection_free_handles = Cardinality(FreeConnSlots(odbc_connection_handles))

\* C3: a connect that returns -1 because allocating or opening the native
\* session failed leaves the connection table, the handles the driver manager
\* holds and the free counter as they were before the call.
C3_FailedConnectRestoresTable ==
    [][(ret'.op = "connect" /\ ret'.why \in {"alloc_failed", "connect_failed"})
          => /\ ret'.val = -1
             /\ odbc_connection_handles' = odbc_connection_handles
             /\ nb_odbc_connection_free_handles' = nb_odbc_connection_free_handles
             /\ leakedDbc' = leakedDbc]_vars

\* C4: a get-cursor that returns -1 because the statement handle could not be
\* allocated leaves every cursor slot and the cursor free counter as they
\* were before the call.
C4_FailedCursorReleasesSlot ==
    [][(ret'.op = "cursor" /\ ret'.why = "alloc_failed")
          => /\ ret'.val = -1
             /\ odbc_cursor_handles' = odbc_cursor_handles
             /\ nb_odbc_cursor_free_handles' = nb_odbc_cursor_free_handles]_vars

\* C5: connect and get-cursor give the "no free handles" outcome only when no
\* slot of their table holds the null handle (the refused call leaves its
\* table as it found it, so the table is read after the call).
C5_NoFreeHandlesOnlyWhenFull ==
    /\ (ret.op = "connect" /\ ret.why = "no_free_handles")
          => FreeConnSlots(odbc_connection_handles) = {}
    /\ (ret.op = "cursor" /\ ret.why = "no_free_handles")
          => FreeCursorSlots(odbc_cursor_handles) = {}

C7_ExhaustionThenDrain ==
    [][/\ (ret'.op = "connect" /\ exhaustion.phase = "fill"
              /\ FreeConnSlots(odbc_connection_handles) = {})
             => /\ ret'.val = -1
                /\ odbc_connection_handles' = odbc_connection_handles
                /\ nb_odbc_connection_free_handles' = nb_odbc_connection_free_handles
       /\ (exhaustion'.phase = "rejected" /\ exhaustion'.drained = ConnIndex)
             => /\ \A i \in ConnIndex : odbc_connection_handles'[i] = NULL
                /\ nb_odbc_connection_free_handles' = MAX_ODBC_CONNECTIONS]_vars

\* C8: disconnect applied to a connection slot that is already empty changes
\* neither a connection slot nor the connection free counter.
C8_DisconnectEmptySlotIsNoOp ==
    [][(ret'.op = "disconnect" /\ ret'.val = 0
           /\ odbc_connection_handles[DisconnectIndex(ret'.arg)] = NULL)
          => /\ odbc_connection_handles' = odbc_connection_handles
             /\ nb_odbc_connection_free_handles' = nb_odbc_connection_free_handles]_vars

\* C9: the facade call disconnect(h) on an occupied slot h returns 0, sets
\* slot h to null, leaves every other slot alone and raises the free counter
\* by one.
C9_DisconnectReleasesItsArgument ==
    [][(ret'.op = "disconnect" /\ ret'.arg \in ConnIndex
           /\ odbc_connection_handles[ret'.arg] # NULL)
          => /\ ret'.val = 0
             /\ odbc_connection_handles' =
                    [odbc_connection_handles EXCEPT ![ret'.arg] = NULL]
             /\ nb_odbc_connection_free_handles' =
                    nb_odbc_connection_free_handles + 1]_vars

\* C10: connect returns a non-negative handle only when the session
\* allocation and the open both gave a success code, and -1 whenever the
\* driver manager gave it a code that is not a success code.
C10_ConnectFailsOnEveryNonSuccess ==
    ret.op = "connect"
        => /\ ret.val >= 0 => /\ Len(ret.rc) = 2
                              /\ \A k \in 1 .. 2 : Succeeded(ret.rc[k])
           /\ (\E k \in 1 .. Len(ret.rc) : ~Succeeded(ret.rc[k])) => ret.val = -1

\* C11: when SQLExecDirect gives a success code, with or without diagnostic
\* information, for a statement with k >= 1 result columns, and no later
\* call fails, execute returns k and the cursor has k column bindings.
C11_SuccessWithInfoBindsColumns ==
    [][(/\ ret'.op = "execute" /\ ret'.why = "ok"
        /\ Succeeded(ret'.rc[1])
        /\ resultSet'[ret'.arg].cols >= 1)
          => /\ ret'.val = resultSet'[ret'.arg].cols
             /\ Len(odbc_cursor_handles'[ret'.arg].pBinding)
                    = resultSet'[ret'.arg].cols]_vars

\* C12: after any sequence of execute calls every binding record that was
\* allocated and not freed is in the chain of a cursor slot.
C12_NoBindingLeaked == leakedBindings = 0

\* C13: an execute during which a column-metadata query or a buffer
\* registration gave a hard error returns -1.
C13_BindingFailureFailsExecute ==
    [][(ret'.op = "execute" /\ ret'.why = "binding_failed") => ret'.val = -1]_vars

\* C14: describe-columns called after an execute that returned a column
\* count reports that count, as its return value and as the count it stores
\* in the array (0 after a statement without a result set).
C14_DescribeAgreesWithLastExecute ==
    [][(/\ ret.op = "execute" /\ ret.why = "ok"
        /\ ret'.op = "describe" /\ ret'.arg = ret.arg
        /\ fetched'.nargs = 2)
          => /\ ret'.why = "ok"
             /\ fetched'.num = ret.val
             /\ fetched'.element0 = ret.val]_vars

\* C15: an execute whose statement completed with zero result columns
\* returns 0 whether or not the affected-row count could be obtained.
C15_RowCountFailureIsNoData ==
    [][(/\ ret'.op = "execute"
        /\ ret'.why \in {"ok", "row_count_failed"}
        /\ ret'.rc = <<SQL_SUCCESS>>
        /\ resultSet'[ret'.arg].cols = 0)
          => ret'.val = 0]_vars

\* C16: on a cursor whose bindings are those of the result set it is on,
\* a fetch to which the driver delivers the next row returns that row, a
\* fetch at the end of the result set returns the end-of-data marker, and
\* the latter changes neither the slot nor the position.
C16_FetchWalksTheResultSet ==
    [][(/\ ret'.op = "fetch" /\ ret'.arg \in CursorIndex
        /\ fetched'.nargs = 1
        /\ resultSet[ret'.arg].cols >= 1
        /\ odbc_cursor_handles[ret'.arg].nb_cols = resultSet[ret'.arg].cols
        /\ Len(odbc_cursor_handles[ret'.arg].pBinding) = resultSet[ret'.arg].cols
        /\ \A j \in 1 .. resultSet[ret'.arg].cols :
              /\ odbc_cursor_handles[ret'.arg].pBinding[j].state = "bound"
              /\ odbc_cursor_handles[ret'.arg].pBinding[j].named)
          => /\ Succeeded(ret'.rc[1])
                => /\ ret'.why = "row"
                   /\ fetched'.type = "string"
                   /\ fetched'.str =
                         FlatRecord([j \in 1 .. resultSet[ret'.arg].cols |->
                                        CellValue(resultSet[ret'.arg].variant,
                                                  resultSet[ret'.arg].pos + 1, j)])
                   /\ resultSet'[ret'.arg].pos = resultSet[ret'.arg].pos + 1
             /\ ret'.rc[1] = SQL_NO_DATA_FOUND
                => /\ ret'.why = "end_of_data"
                   /\ fetched'.type = "string" /\ fetched'.str = << >>
                   /\ resultSet'[ret'.arg].pos = resultSet[ret'.arg].rows
                   /\ UNCHANGED <<odbc_cursor_handles, resultSet>>]_vars

\* C17: the value a flat fetch returns for a row the driver delivered, on a
\* cursor whose bindings are those of its result set and for a row that
\* fits the output buffer, is never the value it returns at the end of the
\* data.
C17_EndOfDataIsDistinct ==
    (/\ ret.op = "fetch" /\ ret.why = "row" /\ fetched.nargs = 1
     /\ Succeeded(ret.rc[1])
     /\ resultSet[ret.arg].cols >= 1
     /\ odbc_cursor_handles[ret.arg].nb_cols = resultSet[ret.arg].cols
     /\ Len(odbc_cursor_handles[ret.arg].pBinding) = resultSet[ret.arg].cols
     /\ \A j \in 1 .. resultSet[ret.arg].cols :
           /\ odbc_cursor_handles[ret.arg].pBinding[j].state = "bound"
           /\ odbc_cursor_handles[ret.arg].pBinding[j].named
     /\ odbc_cursor_handles[ret.arg].row_length + odbc_cursor_handles[ret.arg].nb_cols
            >= Len(fetched.str) + 1)
        => fetched # AwkString("fetch", 1, << >>, -1)

\* C18: fetch returns a row only when SQLFetch gave a success code, the
\* end-of-data marker only when it gave no-data, and the number -1 for
\* every other code.
C18_FetchFailsOnEveryOtherCode ==
    (ret.op = "fetch" /\ ret.rc # << >>)
        => /\ ret.why = "row" => Succeeded(ret.rc[1])
           /\ ret.why = "end_of_data" => ret.rc[1] = SQL_NO_DATA_FOUND
           /\ (~Succeeded(ret.rc[1]) /\ ret.rc[1] # SQL_NO_DATA_FOUND)
                 => (fetched.type = "number" /\ fetched.num = -1)

\* C19: with two arguments, on a cursor whose bindings are those of its
\* result set, fetch returns the number -1 at the end of the data and a
\* number >= 0 for a row the driver delivered.
C19_ArrayModeReturnsNumbers ==
    (/\ ret.op = "fetch" /\ ret.rc # << >>
     /\ fetched.op = "fetch" /\ fetched.nargs = 2
     /\ resultSet[ret.arg].cols >= 1
     /\ odbc_cursor_handles[ret.arg].nb_cols = resultSet[ret.arg].cols
     /\ Len(odbc_cursor_handles[ret.arg].pBinding) = resultSet[ret.arg].cols
     /\ \A j \in 1 .. resultSet[ret.arg].cols :
           /\ odbc_cursor_handles[ret.arg].pBinding[j].state = "bound"
           /\ odbc_cursor_handles[ret.arg].pBinding[j].named)
        => /\ ret.why = "end_of_data"
                 => (fetched.type = "number" /\ fetched.num = -1)
           /\ (ret.why = "row" /\ Succeeded(ret.rc[1]))
                 => (fetched.type = "number" /\ fetched.num >= 0)

\* C20: in the loop while ((row = ODBC_fetch(cursor)) > -1), on a cursor
\* whose bindings are those of its result set, every row the driver
\* delivered and that fits the output buffer satisfies the condition, and
\* the end-of-data value does not, so that the loop body runs once for
\* each row.
C20_FetchLoopRunsOncePerRow ==
    (/\ ret.op = "fetch" /\ ret.rc # << >>
     /\ fetched.op = "fetch" /\ fetched.nargs = 1
     /\ resultSet[ret.arg].cols >= 1
     /\ odbc_cursor_handles[ret.arg].nb_cols = resultSet[ret.arg].cols
     /\ Len(odbc_cursor_handles[ret.arg].pBinding) = resultSet[ret.arg].cols
     /\ \A j \in 1 .. resultSet[ret.arg].cols :
           /\ odbc_cursor_handles[ret.arg].pBinding[j].state = "bound"
           /\ odbc_cursor_handles[ret.arg].pBinding[j].named
     /\ odbc_cursor_handles[ret.arg].row_length + odbc_cursor_handles[ret.arg].nb_cols
            >= Len(fetched.str) + 1)
        => /\ (ret.why = "row" /\ Succeeded(ret.rc[1])) => FetchLoopCondition(fetched)
           /\ ret.why = "end_of_data" => ~FetchLoopCondition(fetched)

\* C21: a fetch with an array argument to which the driver delivers a row,
\* on a cursor whose n bindings are those of the result set it is on,
\* returns the row and leaves in the array the column count n at index 0
\* and, at each index i in 1..n, the one pair of the i-th column's name and
\* the i-th column's value (empty for a null column), and nothing else.
C21_StructuredFetchFillsArray ==
    [][(/\ ret'.op = "fetch" /\ ret'.arg \in CursorIndex
        /\ fetched'.nargs = 2
        /\ Succeeded(ret'.rc[1])
        /\ resultSet[ret'.arg].cols >= 1
        /\ odbc_cursor_handles[ret'.arg].nb_cols = resultSet[ret'.arg].cols
        /\ Len(odbc_cursor_handles[ret'.arg].pBinding) = resultSet[ret'.arg].cols
        /\ \A j \in 1 .. resultSet[ret'.arg].cols :
              /\ odbc_cursor_handles[ret'.arg].pBinding[j].state = "bound"
              /\ odbc_cursor_handles[ret'.arg].pBinding[j].named)
          => /\ ret'.why = "row"
             /\ fetched'.element0 = resultSet[ret'.arg].cols
             /\ fetched'.elements =
                   [i \in 1 .. resultSet[ret'.arg].cols |->
                       [name |-> ColumnName(i),
                        value |-> Segment(CellValue(resultSet[ret'.arg].variant,
                                                    resultSet[ret'.arg].pos + 1, i))]]]_vars

\* C22: a fetch with one argument to which the driver delivers a row, on a
\* cursor whose n >= 1 bindings are those of the result set it is on,
\* returns a string made of the n column values in column order: value i
\* starts right after the one delimiter byte that follows value i - 1,
\* nothing precedes the first value and nothing follows the last, and a
\* null column contributes an empty value.
C22_FlatFetchJoinsColumns ==
    [][(/\ ret'.op = "fetch" /\ ret'.arg \in CursorIndex
        /\ fetched'.nargs = 1
        /\ Succeeded(ret'.rc[1])
        /\ resultSet[ret'.arg].cols >= 1
        /\ odbc_cursor_handles[ret'.arg].nb_cols = resultSet[ret'.arg].cols
        /\ Len(odbc_cursor_handles[ret'.arg].pBinding) = resultSet[ret'.arg].cols
        /\ \A j \in 1 .. resultSet[ret'.arg].cols :
              /\ odbc_cursor_handles[ret'.arg].pBinding[j].state = "bound"
              /\ odbc_cursor_handles[ret'.arg].pBinding[j].named)
          => LET rs == resultSet[ret'.arg]
                 value(i) == LET cell == CellValue(rs.variant, rs.pos + 1, i)
                             IN IF cell.ind > 0 THEN cell.data ELSE << >>
                 RECURSIVE start(_)
                 start(i) == IF i = 1 THEN 1
                             ELSE start(i - 1) + Len(value(i - 1)) + 1
             IN /\ ret'.why = "row"
                /\ fetched'.type = "string"
                /\ Len(fetched'.str) = start(rs.cols) + Len(value(rs.cols)) - 1
                /\ \A i \in 1 .. rs.cols :
                      /\ SubSeq(fetched'.str, start(i), start(i) + Len(value(i)) - 1)
                            = value(i)
                      /\ i > 1 => <<fetched'.str[start(i) - 1]>> = SUBSEP]_vars

\* C23: while a statement with k >= 1 result columns is the one executed
\* on a cursor, every describe-columns call returns the names of its
\* columns 1..k in that order, in string mode (when the string fits the
\* buffer it is built in) and in array mode, and every row a fetch returns has the value of column i as its i-th segment and,
\* in array mode, under the name of column i at index i.
C23_ColumnOrderIsStable ==
    [][(/\ ret'.arg \in CursorIndex
        /\ resultSet[ret'.arg].cols >= 1
        /\ ~aborted')
          => LET rs == resultSet[ret'.arg]
                 row == [i \in 1 .. rs.cols |-> CellValue(rs.variant, rs.pos + 1, i)]
             IN /\ ret'.op = "describe"
                   => /\ (/\ fetched'.nargs = 1
                          /\ odbc_cursor_handles[ret'.arg].header_length
                                + odbc_cursor_handles[ret'.arg].nb_cols
                                >= Len(fetched'.str) + 1)
                         => fetched'.str = Flat([i \in 1 .. rs.cols |-> ColumnName(i)],
                                                rs.cols)
                      /\ fetched'.nargs = 2
                         => /\ fetched'.num = rs.cols
                            /\ fetched'.elements =
                                  [i \in 1 .. rs.cols |->
                                      [name |-> ColumnName(i), value |-> << >>]]
                /\ (ret'.op = "fetch" /\ Succeeded(ret'.rc[1]))
                   => /\ fetched'.str = FlatRecord(row)
                      /\ fetched'.nargs = 2
                         => fetched'.elements =
                               [i \in 1 .. rs.cols |->
                                   [name |-> ColumnName(i), value |-> Segment(row[i])]]]_vars

\* C24: for a row the driver delivers on a cursor whose bindings are those
\* of the result set, the i-th field of the string a fetch with one
\* argument returns and the value a fetch with an array argument stores at
\* index i are the same once trailing spaces are removed, for every column.
C24_FlatAndStructuredAgree ==
    [][(/\ ret'.op = "fetch" /\ ret'.arg \in CursorIndex
        /\ fetched'.nargs = 1
        /\ Succeeded(ret'.rc[1])
        /\ ~aborted'
        /\ resultSet[ret'.arg].cols >= 1
        /\ odbc_cursor_handles[ret'.arg].nb_cols = resultSet[ret'.arg].cols
        /\ Len(odbc_cursor_handles[ret'.arg].pBinding) = resultSet[ret'.arg].cols
        /\ \A j \in 1 .. resultSet[ret'.arg].cols :
              /\ odbc_cursor_handles[ret'.arg].pBinding[j].state = "bound"
              /\ odbc_cursor_handles[ret'.arg].pBinding[j].named)
          => LET rs == resultSet[ret'.arg]
                 row == [i \in 1 .. rs.cols |-> CellValue(rs.variant, rs.pos + 1, i)]
                 structured == FetchElements(odbc_cursor_handles[ret'.arg].pBinding,
                                             row, 2)
             IN \A i \in 1 .. rs.cols :
                   Trim(FlatValue(fetched'.str, i)) = Trim(structured[i].value)]_vars

\* C25: when the driver scrolls (neither scroll call gives an error) on a
\* cursor that is on a result set, whatever the position, rewind returns 1
\* and leaves the cursor before the first row; and the fetch that follows
\* a rewind that returned 1, on a cursor whose bindings are those of the
\* result set, returns the first row, or the end-of-data marker when the
\* result set has no row.
C25_RewindRestartsTheResultSet ==
    [][/\ (/\ ret'.op = "rewind" /\ ret'.arg \in CursorIndex
           /\ resultSet[ret'.arg].cols >= 1
           /\ \A k \in 1 .. Len(ret'.rc) :
                 ret'.rc[k] \notin {SQL_ERROR, SQL_INVALID_HANDLE})
             => /\ ret'.val = 1
                /\ resultSet'[ret'.arg] = [resultSet[ret'.arg] EXCEPT !.pos = 0]
       /\ (/\ ret.op = "rewind" /\ ret.val = 1
           /\ ret'.op = "fetch" /\ ret'.arg = ret.arg
           /\ fetched'.nargs = 1
           /\ ret'.rc[1] # SQL_ERROR
           /\ resultSet[ret'.arg].cols >= 1
           /\ odbc_cursor_handles[ret'.arg].nb_cols = resultSet[ret'.arg].cols
           /\ Len(odbc_cursor_handles[ret'.arg].pBinding) = resultSet[ret'.arg].cols
           /\ \A j \in 1 .. resultSet[ret'.arg].cols :
                 /\ odbc_cursor_handles[ret'.arg].pBinding[j].state = "bound"
                 /\ odbc_cursor_handles[ret'.arg].pBinding[j].named)
             => IF resultSet[ret'.arg].rows = 0
                THEN ret'.why = "end_of_data" /\ fetched'.str = << >>
                ELSE /\ ret'.why = "row"
                     /\ fetched'.str =
                           FlatRecord([j \in 1 .. resultSet[ret'.arg].cols |->
                                          CellValue(resultSet[ret'.arg].variant, 1, j)])]_vars

\* C26: a rewind that returns a value <= 0 leaves the result set of its
\* cursor at the position it had before the call, so that the next fetch
\* returns what it would have returned without the rewind.
C26_FailedRewindKeepsPosition ==
    [][(ret'.op = "rewind" /\ ret'.arg \in CursorIndex /\ ret'.val <= 0)
          => resultSet'[ret'.arg] = resultSet[ret'.arg]]_vars

\* C27: when close-cursor returns for a cursor whose slot holds a statement
\* handle, whether a statement was executed on it or not and whatever the
\* driver answered, the driver manager no longer holds the statement, the
\* slot is the empty slot (null handles, no binding, zero counts) and the
\* free counter is one above what it was.
C27_CloseCursorReleasesEverything ==
    [][(/\ ret'.op = "close_cursor" /\ ret'.arg \in CursorIndex
        /\ odbc_cursor_handles[ret'.arg].hStmt # NULL
        /\ ~aborted')
          => /\ ret'.val = 0
             /\ stmtState'[ret'.arg] = "none"
             /\ odbc_cursor_handles'[ret'.arg] = EmptyCursor
             /\ nb_odbc_cursor_free_handles' = nb_odbc_cursor_free_handles + 1]_vars

\* C28: when a statement with result columns is executed (success or
\* success with info, and no hard error of the column count query) on a cursor that is on a result set of which rows
\* were fetched, with the bindings of that result set, execute returns the
\* column count of the new statement, the slot holds the bindings of the
\* new statement and the cursor is before the first row of the new result
\* set.
C28_ReExecuteResetsTheCursor ==
    [][(/\ ret'.op = "execute" /\ ret'.arg \in CursorIndex
        /\ ret'.rc # << >> /\ Succeeded(ret'.rc[1])
        /\ ret'.why # "num_cols_failed"
        /\ ~aborted'
        /\ resultSet[ret'.arg].cols >= 1
        /\ resultSet[ret'.arg].pos >= 1
        /\ odbc_cursor_handles[ret'.arg].nb_cols = resultSet[ret'.arg].cols
        /\ Len(odbc_cursor_handles[ret'.arg].pBinding) = resultSet[ret'.arg].cols
        /\ resultSet'[ret'.arg].cols >= 1)
          => /\ ret'.val = resultSet'[ret'.arg].cols
             /\ resultSet'[ret'.arg].pos = 0
             /\ odbc_cursor_handles'[ret'.arg].nb_cols = resultSet'[ret'.arg].cols
             /\ Len(odbc_cursor_handles'[ret'.arg].pBinding) = resultSet'[ret'.arg].cols
             /\ \A j \in 1 .. resultSet'[ret'.arg].cols :
                   /\ odbc_cursor_handles'[ret'.arg].pBinding[j].state = "bound"
                   /\ odbc_cursor_handles'[ret'.arg].pBinding[j].named]_vars

\* C29: the width stored for a column is the larger of the display size
\* the driver reported and the length of the column's name, for every
\* display size, those above 32767 included.
C29_WidthIsTheLargerOfSizeAndName ==
    lastBinding.set
        => /\ lastBinding.cDisplaySize >= lastBinding.cchDisplay
           /\ lastBinding.cDisplaySize >= lastBinding.cchColumnNameLength
           /\ lastBinding.cDisplaySize \in {lastBinding.cchDisplay,
                                            lastBinding.cchColumnNameLength}

\* C30: called with a code other than invalid-handle, the reporter passes
\* to say one line, in full, for each record of the handle whose state is
\* not the suppressed one, in ascending order of the record index and up
\* to the last record, whatever the length of the message texts.
C30_EveryRecordIsReported ==
    (diagnostics.retCode \notin {"none", SQL_INVALID_HANDLE} /\ ~aborted)
        => LET reported(i) == ~diagnostics.records[i].suppressed
           IN diagnostics.said =
                 [k \in 1 .. Len(SelectSeq([i \in 1 .. Len(diagnostics.records) |-> i],
                                           reported)) |->
                     [iRec |-> SelectSeq([i \in 1 .. Len(diagnostics.records) |-> i],
                                         reported)[k],
                      full |-> TRUE]]

\* C31: when init_odbc runs again with live handles, it calls close_cursor
\* for every cursor slot with a statement handle before it disconnects any
\* connection, and when it returns every slot of both tables is empty, both
\* free counters equal the capacity of their table, and no statement
\* handle, connection handle or binding record of the handles that were
\* live is left allocated.
C31_ReinitDrainsEverything ==
    [][(ret'.op = "init_odbc" /\ ~aborted')
          => LET calls == environment'.calls IN
             /\ \A i \in CursorIndex :
                   odbc_cursor_handles[i].hStmt # NULL
                      => \E k \in 1 .. Len(calls) :
                            calls[k] = [call |-> "close_cursor", index |-> i]
             /\ \A k, l \in 1 .. Len(calls) :
                   (calls[k].call = "close_cursor" /\ calls[l].call = "disconnect")
                      => k < l
             /\ odbc_cursor_handles' = [i \in CursorIndex |-> EmptyCursor]
             /\ odbc_connection_handles' = [i \in ConnIndex |-> NULL]
             /\ nb_odbc_cursor_free_handles' = MAX_ODBC_CURSORS
             /\ nb_odbc_connection_free_handles' = MAX_ODBC_CONNECTIONS
             /\ \A i \in CursorIndex : stmtState'[i] = "none"
             /\ environment'.leakedStmt = environment.leakedStmt
             /\ leakedDbc' = leakedDbc
             /\ leakedBindings' = leakedBindings]_vars

\* C32: no call of close-cursor or of init_odbc frees a pointer of a
\* binding record that is not the one allocation it was set to (a pointer
\* that was never set can be one that was freed before), and fetch and
\* describe-columns follow or read no such pointer.
C32_BindingsFreedOnce ==
    [][/\ ret'.op \in {"close_cursor", "init_odbc"} => ~aborted'
       /\ (ret'.op = "describe" /\ ret'.arg \in CursorIndex)
             => ~ChainUnsafe(odbc_cursor_handles[ret'.arg].pBinding)
       /\ (ret'.op = "fetch" /\ ret'.why \in {"row", "undefined"})
             => \A j \in 1 .. Len(odbc_cursor_handles[ret'.arg].pBinding) :
                   /\ odbc_cursor_handles[ret'.arg].pBinding[j].state # "raw"
                   /\ fetched'.nargs = 2
                         => odbc_cursor_handles[ret'.arg].pBinding[j].named]_vars

\* C33: a get-cursor call that returns a handle returns none of the
\* handles returned before and not passed to close-cursor since, and of two
\* connect calls in a row that both return a handle the second returns a
\* handle other than the first.
C33_LiveHandlesAreDistinct ==
    [][/\ (ret'.op = "cursor" /\ ret'.val >= 0) => ret'.val \notin openCursors
       /\ (ret.op = "connect" /\ ret.val >= 0 /\ ret'.op = "connect" /\ ret'.val >= 0)
             => ret'.val # ret.val]_vars

\* C34: when get-cursor returns a handle, the connection slot its argument
\* names holds a connection handle, and the cursor slot of the returned index
\* holds a statement handle and that connection handle.
C34_CursorHandleNamesAStatement ==
    [][(ret'.op = "cursor" /\ ret'.val >= 0)
          => /\ odbc_connection_handles[ret'.arg] # NULL
             /\ odbc_cursor_handles'[ret'.val].hStmt # NULL
             /\ odbc_cursor_handles'[ret'.val].hDbc
                    = odbc_connection_handles[ret'.arg]]_vars

\* C35: a facade call given a connection handle or a cursor handle that
\* names no slot (the -1 of a failed call, the index after the last slot)
\* changes neither table and neither free counter, and reads no memory
\* outside the tables.
C35_OutOfRangeHandleIsRejected ==
    [][(/\ ret'.why # "bad_args"
        /\ \/ ret'.op \in {"cursor", "disconnect"} /\ ret'.arg \notin ConnIndex
           \/ ret'.op \in {"close_cursor"} \cup StatementOperations
              /\ ret'.arg \notin CursorIndex)
          => /\ UNCHANGED <<connVars, cursorVars>>
             /\ ~aborted']_vars

\* C36: for every row a fetch serializes, the capacity of the output
\* buffer, row_length + nb_cols with row_length the unsigned sum of the
\* length indicators of the columns, is at least the number of bytes
\* written into it: the segments, one delimiter between two columns and
\* the terminator; rows with null columns (indicator -1) included.
C36_OutputBufferHoldsTheRecord ==
    [][(/\ ret'.op = "fetch" /\ ret'.arg \in CursorIndex
        /\ ret'.why \in {"row", "undefined"}
        /\ Succeeded(ret'.rc[1])
        /\ resultSet[ret'.arg].cols >= 1
        /\ Len(odbc_cursor_handles[ret'.arg].pBinding) = resultSet[ret'.arg].cols)
          => LET cells == [j \in 1 .. resultSet[ret'.arg].cols |->
                             CellValue(resultSet[ret'.arg].variant,
                                       resultSet[ret'.arg].pos + 1, j)]
                 capacity == Unsigned32(odbc_cursor_handles'[ret'.arg].row_length
                                        + odbc_cursor_handles[ret'.arg].nb_cols)
             IN /\ odbc_cursor_handles'[ret'.arg].row_length
                      = Unsigned32(SumInd(cells, Len(cells)))
                /\ \/ HugeArray(capacity)
                   \/ capacity >= Len(FlatRecord(cells)) + 1]_vars

\* C37: when ODBC_execute returns -1, the binding chain, the column
\* count, the header length and the row length of every cursor, the one
\* given included, are what they were before the call.
C37_FailedExecuteKeepsMetadata ==
    [][(ret'.op = "execute" /\ ret'.val = -1)
          => \A i \in CursorIndex :
                /\ odbc_cursor_handles'[i].pBinding = odbc_cursor_handles[i].pBinding
                /\ odbc_cursor_handles'[i].nb_cols = odbc_cursor_handles[i].nb_cols
                /\ odbc_cursor_handles'[i].header_length
                      = odbc_cursor_handles[i].header_length
                /\ odbc_cursor_handles'[i].row_length
                      = odbc_cursor_handles[i].row_length]_vars

\* an execute returned -1 on a cursor that holds the bindings, the headers
\* and the row length of an earlier statement
C37_Witness ==
    /\ ret.op = "execute" /\ ret.val = -1 /\ ret.arg \in CursorIndex
    /\ ret.why \in {"exec_failed", "num_cols_failed", "row_count_failed"}
    /\ odbc_cursor_handles[ret.arg].pBinding # << >>
    /\ odbc_cursor_handles[ret.arg].nb_cols > 0
    /\ odbc_cursor_handles[ret.arg].header_length > 0
    /\ odbc_cursor_handles[ret.arg].row_length > 0

====
